---- MODULE Spec2Model ----
(***************************************************************************)
(* State-machine model of the IoT dashboard's real-time pipeline:          *)
(*   - the Entity Store (DataStore, src/src/frontend/js/store.js),         *)
(*   - the status derivation (DataStore._calculateSensorStatus and         *)
(*     API.getSensorStatus, src/src/electron/main.js),                     *)
(*   - the push-event wiring (IoTDashboard._setupAPIEventHandlers,         *)
(*     src/unnamed/part_001),                                              *)
(*   - the history chart feeder driven by the store                        *)
(*     (SensorHistoryController, src/unnamed/part_002),                    *)
(*   - the periodic dashboard timer (src/src/frontend/js/dashboard.js).    *)
(*                                                                         *)
(* Time is in milliseconds, counted from an arbitrary origin so that every *)
(* instant fits a machine integer; Date.now() is the variable now.         *)
(***************************************************************************)
EXTENDS Integers, Sequences, FiniteSets, TLC

(***************************************************************************)
(* JavaScript values.  Every value is a record of one shape:               *)
(*   t  the result of typeof,                                              *)
(*   k  the kind within the type (finite / NaN / Infinity / -Infinity for  *)
(*      numbers, null / object for objects),                               *)
(*   n  the number (finite numbers, booleans as 0 / 1),                    *)
(*   s  the characters (strings), one character per element.               *)
(***************************************************************************)
Num(i) == [t |-> "number", k |-> "finite", n |-> i, s |-> <<>>]
NaN == [t |-> "number", k |-> "NaN", n |-> 0, s |-> <<>>]
PosInfinity == [t |-> "number", k |-> "Infinity", n |-> 0, s |-> <<>>]
NegInfinity == [t |-> "number", k |-> "-Infinity", n |-> 0, s |-> <<>>]
Str(cs) == [t |-> "string", k |-> "", n |-> 0, s |-> cs]
Null == [t |-> "object", k |-> "null", n |-> 0, s |-> <<>>]
Undefined == [t |-> "undefined", k |-> "", n |-> 0, s |-> <<>>]
Bool(b) == [t |-> "boolean", k |-> "", n |-> IF b THEN 1 ELSE 0, s |-> <<>>]
Obj == [t |-> "object", k |-> "object", n |-> 0, s |-> <<>>]

IsNullish(v) == v = Null \/ v = Undefined
IsFiniteNum(v) == v.t = "number" /\ v.k = "finite"

\* JavaScript truthiness (the operand test of ||, ?: and if).
Truthy(v) ==
    CASE v.t = "number" -> ~(v.k = "NaN" \/ (v.k = "finite" /\ v.n = 0))
      [] v.t = "string" -> v.s # <<>>
      [] v.t = "boolean" -> v.n = 1
      [] v.t = "undefined" -> FALSE
      [] OTHER -> v.k # "null"

\* a || b
Or(a, b) == IF Truthy(a) THEN a ELSE b

(***************************************************************************)
(* Number parsing.  The strings of the model hold no fraction and no       *)
(* exponent part, so a parsed number is an integer.                        *)
(***************************************************************************)
Digits == <<"0", "1", "2", "3", "4", "5", "6", "7", "8", "9">>
DigitSet == {Digits[i] : i \in DOMAIN Digits}
DigitVal(c) == (CHOOSE i \in DOMAIN Digits : Digits[i] = c) - 1
WhiteSpace == {" ", "\t", "\n"}
InfinityChars == <<"I", "n", "f", "i", "n", "i", "t", "y">>

IsPrefix(p, cs) == Len(p) <= Len(cs) /\ SubSeq(cs, 1, Len(p)) = p

RECURSIVE TrimLeft(_)
TrimLeft(cs) == IF cs # <<>> /\ Head(cs) \in WhiteSpace THEN TrimLeft(Tail(cs)) ELSE cs

RECURSIVE TrimRight(_)
TrimRight(cs) ==
    IF cs # <<>> /\ cs[Len(cs)] \in WhiteSpace THEN TrimRight(SubSeq(cs, 1, Len(cs) - 1)) ELSE cs

RECURSIVE DigitPrefix(_)
DigitPrefix(cs) ==
    IF cs # <<>> /\ Head(cs) \in DigitSet THEN <<Head(cs)>> \o DigitPrefix(Tail(cs)) ELSE <<>>

RECURSIVE DigitsValue(_)
DigitsValue(ds) ==
    IF ds = <<>> THEN 0 ELSE 10 * DigitsValue(SubSeq(ds, 1, Len(ds) - 1)) + DigitVal(ds[Len(ds)])

\* parseFloat(string): leading white space skipped, an optional sign, then
\* "Infinity" or the longest run of digits; what follows is ignored; NaN
\* when neither is there.
parseFloat(cs) ==
    LET body == TrimLeft(cs)
        signed == body # <<>> /\ Head(body) \in {"+", "-"}
        neg == body # <<>> /\ Head(body) = "-"
        rest == IF signed THEN Tail(body) ELSE body
        ds == DigitPrefix(rest)
    IN  IF IsPrefix(InfinityChars, rest) THEN (IF neg THEN NegInfinity ELSE PosInfinity)
        ELSE IF ds = <<>> THEN NaN
        ELSE Num(IF neg THEN 0 - DigitsValue(ds) ELSE DigitsValue(ds))

\* Number(string): the whole trimmed string must be a numeric literal; the
\* empty string is 0.
StringToNumber(cs) ==
    LET body == TrimRight(TrimLeft(cs))
        signed == body # <<>> /\ Head(body) \in {"+", "-"}
        neg == body # <<>> /\ Head(body) = "-"
        rest == IF signed THEN Tail(body) ELSE body
        ds == DigitPrefix(rest)
    IN  IF body = <<>> THEN Num(0)
        ELSE IF rest = InfinityChars THEN (IF neg THEN NegInfinity ELSE PosInfinity)
        ELSE IF ds = <<>> \/ ds # rest THEN NaN
        ELSE Num(IF neg THEN 0 - DigitsValue(ds) ELSE DigitsValue(ds))

\* ToNumber, the coercion behind isNaN(v) and behind >= and <= on a non-number.
ToNumber(v) ==
    CASE v.t = "number" -> v
      [] v.t = "string" -> StringToNumber(v.s)
      [] v.t = "boolean" -> Num(v.n)
      [] v.t = "undefined" -> NaN
      [] OTHER -> IF v.k = "null" THEN Num(0) ELSE NaN

\* The global isNaN(v).
isNaN(v) == ToNumber(v).k = "NaN"

\* a <= b on numbers, IEEE style: false when either side is NaN.
NumLeq(a, b) ==
    IF a.k = "NaN" \/ b.k = "NaN" THEN FALSE
    ELSE IF a.k = "-Infinity" \/ b.k = "Infinity" THEN TRUE
    ELSE IF a.k = "Infinity" \/ b.k = "-Infinity" THEN FALSE
    ELSE a.n <= b.n

(***************************************************************************)
(* Dates.  new Date(timestamp) of a finite number is that instant; of      *)
(* undefined or NaN it is an Invalid Date, whose getTime() is NaN.  A      *)
(* Date object is truthy whether valid or not; NoDate stands for null.     *)
(***************************************************************************)
NoDate == [set |-> FALSE, valid |-> FALSE, ms |-> 0]
NewDate(ts) ==
    IF IsFiniteNum(ts) THEN [set |-> TRUE, valid |-> TRUE, ms |-> ts.n]
    ELSE [set |-> TRUE, valid |-> FALSE, ms |-> 0]
getTime(d) == IF d.valid THEN Num(d.ms) ELSE NaN

(***************************************************************************)
(* Program constants.                                                      *)
(***************************************************************************)
StaleAfter == 300000
ReadingsCap == 100
AlarmsCap == 1000
throttleDelay == 1000

(***************************************************************************)
(* API.getSensorStatus: the threshold classification.                      *)
(***************************************************************************)
Range(lo, hi) == [min |-> lo, max |-> hi]

thresholds ==
    [humidity |-> [critical |-> <<Range(Num(0), Num(20)), Range(Num(80), Num(100))>>,
                   warning |-> <<Range(Num(20), Num(30)), Range(Num(70), Num(80))>>],
     vibration |-> [critical |-> <<Range(Num(50), PosInfinity)>>,
                    warning |-> <<Range(Num(20), Num(50))>>],
     stress |-> [critical |-> <<Range(Num(80), PosInfinity)>>,
                 warning |-> <<Range(Num(60), Num(80))>>]]

checkRangesOpen(ranges, numValue) ==
    \E i \in DOMAIN ranges :
        /\ NumLeq(ranges[i].min, ToNumber(numValue))
        /\ NumLeq(ToNumber(numValue), ranges[i].max)
        /\ ToNumber(numValue) # ranges[i].max

\* ranges.some(([min, max]) => numValue >= min && numValue <= max)
checkRanges(ranges, numValue) ==
    \E i \in DOMAIN ranges :
        NumLeq(ranges[i].min, ToNumber(numValue)) /\ NumLeq(ToNumber(numValue), ranges[i].max)

WarningFirstStatus(value, sensorType) ==
    IF IsNullish(value) \/ isNaN(value) THEN "offline"
    ELSE LET numValue == IF value.t = "string" THEN parseFloat(value.s) ELSE value
         IN  IF isNaN(numValue) THEN "offline"
             ELSE IF sensorType \notin DOMAIN thresholds THEN "normal"
             ELSE IF checkRanges(thresholds[sensorType].warning, numValue) THEN "warning"
             ELSE IF checkRanges(thresholds[sensorType].critical, numValue) THEN "critical"
             ELSE "normal"

getSensorStatus(value, sensorType) ==
    IF IsNullish(value) \/ isNaN(value) THEN "offline"
    ELSE LET numValue == IF value.t = "string" THEN parseFloat(value.s) ELSE value
         IN  IF isNaN(numValue) THEN "offline"
             ELSE IF sensorType \notin DOMAIN thresholds THEN "normal"
             ELSE IF checkRanges(thresholds[sensorType].critical, numValue) THEN "critical"
             ELSE IF checkRanges(thresholds[sensorType].warning, numValue) THEN "warning"
             ELSE "normal"

\* getSensorStatus of the event-driven API (api.js): no test for an absent
\* value, the comparisons coerce what they are given.
legacyGetSensorStatus(value, sensorType) ==
    IF sensorType \notin DOMAIN thresholds THEN "normal"
    ELSE IF checkRanges(thresholds[sensorType].critical, value) THEN "critical"
    ELSE IF checkRanges(thresholds[sensorType].warning, value) THEN "warning"
    ELSE "normal"

(***************************************************************************)
(* DataStore._calculateSensorStatus(sensor), with Date.now() = t.          *)
(***************************************************************************)
\* Date.now() - sensor.lastUpdate.getTime() > 300000
StaleAtLimit(lastUpdate, t) ==
    LET at == getTime(lastUpdate)
    IN  at.k = "finite" /\ t - at.n >= StaleAfter

IsStale(lastUpdate, t) ==
    LET at == getTime(lastUpdate)
    IN  at.k = "finite" /\ t - at.n > StaleAfter

_calculateSensorStatus(sensor, t) ==
    IF ~sensor.lastUpdate.set THEN "offline"
    ELSE IF IsStale(sensor.lastUpdate, t) THEN "offline"
    ELSE IF sensor.lastValue # Null THEN getSensorStatus(sensor.lastValue, sensor.type)
    ELSE "active"

(***************************************************************************)
(* The Entity Store: DataStore of store.js.  A store state is the record   *)
(* this.state = {sensors, alarms, systemStats, connectionStatus}; sensors  *)
(* is the Map from sensor id to sensor record, as a function on the ids it *)
(* holds.  Every store operation returns the new state and the             *)
(* notifications it passes to _notify, in order.                           *)
(***************************************************************************)
(***************************************************************************)
(* Alarms.  An alarm is a record {id, sensor_id, level, timestamp,         *)
(* acknowledged}; NoAlarm stands for the undefined that                    *)
(* addAlarm(data.alarm) is handed when the event carries no alarm object.  *)
(***************************************************************************)
Alarm(id, sensorId, level, ts) ==
    [defined |-> TRUE, id |-> id, sensor_id |-> sensorId, level |-> level, timestamp |-> ts,
     acknowledged |-> FALSE]
NoAlarm ==
    [defined |-> FALSE, id |-> 0, sensor_id |-> "", level |-> "", timestamp |-> 0,
     acknowledged |-> FALSE]

EmptyMap == [x \in {} |-> x]

\* The record setSensors and addOrUpdateSensor create.
NewSensor(id, type, location, status) ==
    [id |-> id, type |-> type, location |-> location, status |-> status,
     lastValue |-> Null, lastUpdate |-> NoDate, readings |-> <<>>]

NoSensor == NewSensor("", "", "", "")

Put(f, key, val) == [x \in DOMAIN f \cup {key} |-> IF x = key THEN val ELSE f[x]]

\* A notification handed to _notify: the key and the data of the listeners.
\* The data is one of: the sensors map, {sensorId, sensor}, a sensor, the
\* alarm list, an alarm, or a text (connection status, statistics).
NoData ==
    [sensorId |-> "", sensor |-> NoSensor, sensors |-> EmptyMap, alarms |-> <<>>,
     alarm |-> NoAlarm, text |-> ""]
SensorsData(sensors) == [NoData EXCEPT !.sensors = sensors]
SensorData(sensorId, sensor) == [NoData EXCEPT !.sensorId = sensorId, !.sensor = sensor]
AlarmsData(alarmList) == [NoData EXCEPT !.alarms = alarmList]
AlarmData(alarm) == [NoData EXCEPT !.alarm = alarm]
TextData(text) == [NoData EXCEPT !.text = text]

Note(key, data) == [key |-> key, data |-> data]
Result(st, notes) == [state |-> st, notes |-> notes]

\* constructor
NewStore ==
    [sensors |-> EmptyMap, alarms |-> <<>>, systemStats |-> "none",
     connectionStatus |-> "disconnected"]

\* a || b on strings, "" standing for an absent (undefined) field.
OrStr(a, b) == IF a # "" THEN a ELSE b

RECURSIVE InstallSensors(_, _)
InstallSensors(map, list) ==
    IF list = <<>> THEN map
    ELSE LET sensor == Head(list)
         IN  InstallSensors(
                 Put(map, sensor.sensor_id,
                     NewSensor(sensor.sensor_id, sensor.sensor_type, sensor.location,
                               OrStr(sensor.status, "active"))),
                 Tail(list))

setSensors(st, list) ==
    LET st2 == [st EXCEPT !.sensors = InstallSensors(EmptyMap, list)]
    IN  Result(st2, <<Note("sensors", SensorsData(st2.sensors))>>)

ReplaceSensor(st, sensorData) ==
    LET sensorId == OrStr(sensorData.sensor_id, sensorData.id)
        sensor == NewSensor(sensorId,
                            OrStr(OrStr(sensorData.sensor_type, sensorData.type), "unknown"),
                            OrStr(sensorData.location, "unknown"),
                            OrStr(sensorData.status, "active"))
        st2 == [st EXCEPT !.sensors = Put(st.sensors, sensorId, sensor)]
    IN  IF sensorId = "" THEN Result(st, <<>>)
        ELSE Result(st2, <<Note("sensorUpdated", SensorData(sensorId, sensor)),
                           Note("sensors", SensorsData(st2.sensors))>>)

addOrUpdateSensor(st, sensorData) ==
    LET sensorId == OrStr(sensorData.sensor_id, sensorData.id)
    IN  IF sensorId = "" THEN Result(st, <<>>)
        ELSE LET created ==
                     IF sensorId \in DOMAIN st.sensors THEN st.sensors[sensorId]
                     ELSE NewSensor(sensorId,
                                    OrStr(OrStr(sensorData.sensor_type, sensorData.type), "unknown"),
                                    OrStr(sensorData.location, "unknown"),
                                    "active")
                 sensor ==
                     [created EXCEPT
                         !.type = OrStr(sensorData.sensor_type, @),
                         !.location = OrStr(sensorData.location, @),
                         !.status = OrStr(sensorData.status, @)]
                 st2 == [st EXCEPT !.sensors = Put(st.sensors, sensorId, sensor)]
             IN  Result(st2, <<Note("sensorUpdated", SensorData(sensorId, sensor)), Note("sensors", SensorsData(st2.sensors))>>)

\* Lines 85-98 of updateSensorData: validate and sanitize the value.
sanitize(value) ==
    IF ~IsNullish(value)
    THEN IF value.t = "string"
         THEN LET parsed == parseFloat(value.s)
              IN  IF isNaN(parsed) THEN Null ELSE parsed
         ELSE IF value.t = "number" /\ ~isNaN(value) THEN value
         ELSE Null
    ELSE Null

\* readings.slice(-100) when the buffer is longer than 100.
KeepOldest(readings) ==
    IF Len(readings) > ReadingsCap THEN SubSeq(readings, 1, ReadingsCap) ELSE readings

NoLimit(readings) == readings

limitHistory(readings) ==
    IF Len(readings) > ReadingsCap
    THEN SubSeq(readings, Len(readings) - ReadingsCap + 1, Len(readings))
    ELSE readings

\* Lines 105-107: only a valid value is added to the readings.
pushReading(readings, sanitizedValue, timestamp) ==
    IF sanitizedValue # Null
    THEN Append(readings, [value |-> sanitizedValue, timestamp |-> timestamp])
    ELSE readings

CreateUnknownSensor(st, sensorId, value, timestamp, t) ==
    LET sensor == NewSensor(sensorId, "unknown", "unknown", "active")
        st2 == [st EXCEPT !.sensors = Put(st.sensors, sensorId, sensor)]
    IN  Result(st2, <<Note("sensorData", SensorData(sensorId, sensor)),
                      Note("sensors", SensorsData(st2.sensors))>>)

\* Line 82: the reading of a sensor the store does not hold.
unknownSensor(st, sensorId, value, timestamp, t) == Result(st, <<>>)

\* Line 102: the status is recomputed from the record just updated.
recomputeStatus(sensor, t) == _calculateSensorStatus(sensor, t)

KeepNewestStamp(sensor, timestamp) ==
    IF sensor.lastUpdate.valid /\ IsFiniteNum(timestamp) /\ timestamp.n < sensor.lastUpdate.ms
    THEN sensor.lastUpdate
    ELSE NewDate(timestamp)

\* Line 101: sensor.lastUpdate = new Date(timestamp), whatever it was.
stampUpdate(sensor, timestamp) == NewDate(timestamp)

updateSensorData(st, sensorId, value, timestamp, t) ==
    IF sensorId \notin DOMAIN st.sensors THEN unknownSensor(st, sensorId, value, timestamp, t)
    ELSE LET sanitizedValue == sanitize(value)
             s1 == [st.sensors[sensorId] EXCEPT
                       !.lastValue = sanitizedValue,
                       !.lastUpdate = stampUpdate(st.sensors[sensorId], timestamp)]
             s2 == [s1 EXCEPT !.status = recomputeStatus(s1, t)]
             sensor == [s2 EXCEPT
                           !.readings = limitHistory(pushReading(@, sanitizedValue, timestamp))]
             st2 == [st EXCEPT !.sensors = Put(st.sensors, sensorId, sensor)]
         IN  Result(st2, <<Note("sensorData", SensorData(sensorId, sensor)),
                           Note("sensors", SensorsData(st2.sensors))>>)

\* Array.prototype.sort with (a, b) => new Date(b.timestamp) - new Date(a.timestamp):
\* a stable sort, descending by timestamp.  An alarm's place in the result is
\* one more than the number of alarms that go before it: those with a later
\* timestamp, and those with the same timestamp that were before it in the list.
Unsorted(list) == list

SortDesc(list) ==
    LET n == Len(list)
        place == <<>> \o [i \in 1..n |->
                    1 + Cardinality({j \in 1..n :
                            \/ list[j].timestamp > list[i].timestamp
                            \/ list[j].timestamp = list[i].timestamp /\ j < i})]
    IN  <<>> \o [k \in 1..n |-> list[CHOOSE i \in 1..n : place[i] = k]]

setAlarms(st, alarmList) ==
    LET st2 == [st EXCEPT !.alarms = SortDesc(alarmList)]
    IN  Result(st2, <<Note("alarms", AlarmsData(st2.alarms))>>)

\* unshift(alarm), then slice(0, 1000) when longer than 1000.
AppendAlarm(alarmList, alarm) ==
    LET grown == Append(alarmList, alarm)
    IN  IF Len(grown) > AlarmsCap THEN SubSeq(grown, 1, AlarmsCap) ELSE grown

unshiftAlarm(alarmList, alarm) ==
    LET grown == <<alarm>> \o alarmList
    IN  IF Len(grown) > AlarmsCap THEN SubSeq(grown, 1, AlarmsCap) ELSE grown

AlarmsThenNewAlarm(st, alarm) ==
    LET st2 == [st EXCEPT !.alarms = unshiftAlarm(@, alarm)]
    IN  Result(st2, <<Note("alarms", AlarmsData(st2.alarms)), Note("newAlarm", AlarmData(alarm))>>)

addAlarm(st, alarm) ==
    LET st2 == [st EXCEPT !.alarms = unshiftAlarm(@, alarm)]
    IN  Result(st2, <<Note("newAlarm", AlarmData(alarm)), Note("alarms", AlarmsData(st2.alarms))>>)

\* alarms.find(a => a.id === alarmId): the index of the first match, 0 when
\* there is none.  Reading .id of an undefined entry throws a TypeError, which
\* ends the search and the call: -1.
findAlarm(alarmList, alarmId, i) ==
    LET stops == {k \in i..Len(alarmList) :
                     ~alarmList[k].defined \/ alarmList[k].id = alarmId}
    IN  IF stops = {} THEN 0
        ELSE LET first == CHOOSE k \in stops : \A m \in stops : k <= m
             IN  IF alarmList[first].defined THEN first ELSE 0 - 1

ToggleFlag(alarm) == [alarm EXCEPT !.acknowledged = ~@]

\* alarm.acknowledged = true
setAcknowledged(alarm) == [alarm EXCEPT !.acknowledged = TRUE]

acknowledgeAlarm(st, alarmId) ==
    LET i == findAlarm(st.alarms, alarmId, 1)
    IN  IF i > 0
        THEN LET st2 == [st EXCEPT !.alarms[i] = setAcknowledged(@)]
             IN  Result(st2, <<Note("alarms", AlarmsData(st2.alarms))>>)
        ELSE Result(st, <<>>)

updateSystemStats(st, stats) ==
    LET st2 == [st EXCEPT !.systemStats = stats]
    IN  Result(st2, <<Note("systemStats", TextData(stats))>>)

setConnectionStatus(st, status) ==
    LET st2 == [st EXCEPT !.connectionStatus = status]
    IN  Result(st2, <<Note("connectionStatus", TextData(status))>>)

(***************************************************************************)
(* Subscriptions.  this.listeners is the Map from a key to the Set of its  *)
(* callbacks; a Set keeps its members in insertion order, so it is the     *)
(* sequence of the callbacks without repetition.                           *)
(***************************************************************************)
Members(seq) == {seq[i] : i \in DOMAIN seq}

RECURSIVE Without(_, _)
Without(seq, x) ==
    IF seq = <<>> THEN <<>>
    ELSE IF Head(seq) = x THEN Without(Tail(seq), x)
    ELSE <<Head(seq)>> \o Without(Tail(seq), x)

subscribeFront(ls, key, callback) ==
    LET had == IF key \in DOMAIN ls THEN ls[key] ELSE <<>>
    IN  Put(ls, key, IF callback \in Members(had) THEN had ELSE <<callback>> \o had)

\* subscribe(key, callback): the Set of the key is created when missing, the
\* callback added to it.
subscribe(ls, key, callback) ==
    LET had == IF key \in DOMAIN ls THEN ls[key] ELSE <<>>
    IN  Put(ls, key, IF callback \in Members(had) THEN had ELSE Append(had, callback))

KeepSubscribed(ls, key, callback) == ls

\* The function subscribe returns: this.listeners.get(key).delete(callback).
unsubscribe(ls, key, callback) == [ls EXCEPT ![key] = Without(@, callback)]

\* The callbacks of the model that throw when called.
Throwers == {"c2"}

Invocation(key, callback, data) ==
    [key |-> key, callback |-> callback, data |-> data, threw |-> callback \in Throwers]

RECURSIVE callUntilThrow(_, _, _)
callUntilThrow(callbacks, key, data) ==
    IF callbacks = <<>> THEN <<>>
    ELSE IF Head(callbacks) \in Throwers THEN <<Invocation(key, Head(callbacks), data)>>
    ELSE <<Invocation(key, Head(callbacks), data)>> \o callUntilThrow(Tail(callbacks), key, data)

NotifyUntilThrow(ls, key, data) ==
    IF key \in DOMAIN ls THEN callUntilThrow(ls[key], key, data) ELSE <<>>

\* _notify(key, data): the calls it makes, in order; a callback that throws
\* is caught and logged, and the forEach goes on.
_notify(ls, key, data) ==
    IF key \in DOMAIN ls
    THEN [i \in DOMAIN ls[key] |-> Invocation(key, ls[key][i], data)]
    ELSE <<>>

\* The calls of the notifications of one store operation.
RECURSIVE notifyAll(_, _)
notifyAll(ls, notes) ==
    IF notes = <<>> THEN <<>>
    ELSE _notify(ls, Head(notes).key, Head(notes).data) \o notifyAll(ls, Tail(notes))

(***************************************************************************)
(* The history chart feeder driven by the store                            *)
(* (SensorHistoryController of part_002).  A chart holds a sequence of     *)
(* datasets; a dataset carries its label `${sensorId} (${location})` as    *)
(* the pair (sid, loc) and its points {x: Date, y: value}.                 *)
(***************************************************************************)
sensorTypes == <<"humidity", "vibration", "stress">>
ChartTypes == {sensorTypes[i] : i \in DOMAIN sensorTypes}

\* The characters of the sensor ids of the model.
IdChars(id) ==
    CASE id = "S1" -> <<"S", "1">>
      [] id = "S10" -> <<"S", "1", "0">>
      [] id = "S2" -> <<"S", "2">>
      [] id = "S9" -> <<"S", "9">>
      [] OTHER -> <<>>

\* The label starts with the id and goes on with " (", the location and ")".
LabelChars(dataset) == IdChars(dataset.sid) \o <<" ", "(">>

\* d.label.startsWith(sensorId)
labelStartsWith(dataset, sensorId) == IsPrefix(IdChars(sensorId), LabelChars(dataset))

\* datasets.find(d => d.label.startsWith(sensorId)): the index, 0 for none.
RECURSIVE findDataset(_, _, _)
findDataset(datasets, sensorId, i) ==
    IF i > Len(datasets) THEN 0
    ELSE IF labelStartsWith(datasets[i], sensorId) THEN i
    ELSE findDataset(datasets, sensorId, i + 1)

_getLimitForDateRange(range) ==
    CASE range = "day" -> 288
      [] range = "week" -> 2016
      [] range = "month" -> 8640
      [] range = "custom" -> 10000
      [] OTHER -> 2016

\* data.sort((a, b) => a.x.getTime() - b.x.getTime()): stable, ascending.
\* A point's place in the result is one more than the number of points that
\* go before it: those with an earlier time, and those with the same time
\* that were before it in the array.
SortAsc(points) ==
    LET n == Len(points)
        place == <<>> \o [i \in 1..n |->
                    1 + Cardinality({j \in 1..n :
                            \/ points[j].x.ms < points[i].x.ms
                            \/ points[j].x.ms = points[i].x.ms /\ j < i})]
    IN  <<>> \o [k \in 1..n |-> points[CHOOSE i \in 1..n : place[i] = k]]

sliceNone(points, maxPoints) == points

sliceLast(points, maxPoints) ==
    IF Len(points) > maxPoints
    THEN SubSeq(points, Len(points) - maxPoints + 1, Len(points))
    ELSE points

\* _handleSensorUpdate({sensorId, sensor}) on the charts ch, under the
\* selection sel = [type, devices, range] of the three select elements.
_handleSensorUpdate(ch, sel, sensorId, sensor) ==
    IF sel.type # "" /\ sensor.type # sel.type THEN ch
    ELSE IF sel.devices # {} /\ sensorId \notin sel.devices THEN ch
    ELSE IF sensor.type \notin DOMAIN ch THEN ch
    ELSE LET datasets == ch[sensor.type]
             found == findDataset(datasets, sensorId, 1)
             withSet ==
                 IF found = 0
                 THEN Append(datasets, [sid |-> sensorId, loc |-> sensor.location, data |-> <<>>])
                 ELSE datasets
             i == IF found = 0 THEN Len(withSet) ELSE found
         IN  IF sensor.lastValue # Null /\ sensor.lastUpdate.set
             THEN [ch EXCEPT ![sensor.type] =
                      [withSet EXCEPT ![i].data =
                          SortAsc(sliceLast(Append(@, [x |-> sensor.lastUpdate, y |-> sensor.lastValue]),
                                            _getLimitForDateRange(sel.range)))]]
             ELSE [ch EXCEPT ![sensor.type] = withSet]

\* The 'sensorData' listeners, run on each such notification in turn.
RECURSIVE deliverSensorData(_, _, _)
deliverSensorData(ch, sel, notes) ==
    IF notes = <<>> THEN ch
    ELSE IF Head(notes).key = "sensorData"
         THEN deliverSensorData(
                  _handleSensorUpdate(ch, sel, Head(notes).data.sensorId, Head(notes).data.sensor),
                  sel, Tail(notes))
         ELSE deliverSensorData(ch, sel, Tail(notes))

(***************************************************************************)
(* The reload of the history charts (_loadHistoricalData).  The call reads *)
(* the selection and the store when it starts, and then fetches the        *)
(* history of one sensor after the other, chart type by chart type; the    *)
(* datasets of a type are assigned to its chart when the last of its       *)
(* sensors was answered.  A call in progress is a record: the range it     *)
(* read, the chart types it updates, the sensors it loads, the type it is  *)
(* at (ti), the sensors of that type still to be answered (the first is    *)
(* the fetch awaited) and the datasets built for it so far.                *)
(***************************************************************************)
\* store.getSensors(): the values of the Map in insertion order, which for
\* the snapshot lists of the model is the order of their ids.
SensorOrder == <<"S1", "S10", "S2", "S9">>

getSensors(sensors) ==
    LET ids == SelectSeq(SensorOrder, LAMBDA id : id \in DOMAIN sensors)
    IN  [i \in DOMAIN ids |->
            [id |-> ids[i], type |-> sensors[ids[i]].type, location |-> sensors[ids[i]].location]]

\* devicesToLoad: the sensors of the selected type, and of the selected
\* devices if any is selected.
devicesToLoad(sensors, type, devices) ==
    SelectSeq(getSensors(sensors),
              LAMBDA s : (type = "" \/ s.type = type) /\ (devices = {} \/ s.id \in devices))

typeSensors(devices, type) == SelectSeq(devices, LAMBDA s : s.type = type)

\* A history answer of n points, newest first, the newest at time newest.
\* The points are 10 ms apart and carry the value 40.
HistoryData(n, newest) ==
    [i \in 1..n |-> [timestamp |-> Num(newest - (i - 1) * 10), value |-> Num(40)]]

Reverse(list) == [i \in 1..Len(list) |-> list[Len(list) + 1 - i]]

\* The dataset built from a non-empty answer (no custom dates are entered).
historyDataset(sensor, data) ==
    [sid |-> sensor.id, loc |-> sensor.location,
     data |-> <<>> \o Reverse([i \in 1..Len(data) |->
                                  [x |-> NewDate(data[i].timestamp), y |-> data[i].value]])]

reloadDone(r) == r.ti > Len(r.types)

\* The call runs on to its next await, or to its end: a type whose sensors
\* are all answered has its datasets assigned to its chart, and the call
\* goes on with the next type.
AppendDatasets(old, built) == old \o built

assignDatasets(old, built) == built

RECURSIVE advance(_, _, _)
advance(ch, r, installed) ==
    IF reloadDone(r) \/ r.pending # <<>>
    THEN [charts |-> ch, reload |-> r, installed |-> installed]
    ELSE LET type == r.types[r.ti]
             next == r.ti + 1
         IN  advance([ch EXCEPT ![type] = assignDatasets(@, r.datasets)],
                     [r EXCEPT !.ti = next, !.datasets = <<>>,
                               !.pending = IF next > Len(r.types) THEN <<>>
                                           ELSE typeSensors(r.devices, r.types[next])],
                     installed \cup {type})

\* The call up to its first await.
_loadHistoricalData(ch, sel, sensors) ==
    LET devs == devicesToLoad(sensors, sel.type, sel.devices)
        chartTypesToUpdate == IF sel.type # "" THEN <<sel.type>> ELSE sensorTypes
    IN  advance(ch, [range |-> sel.range, types |-> chartTypesToUpdate, devices |-> devs, ti |-> 1,
                     pending |-> typeSensors(devs, chartTypesToUpdate[1]), datasets |-> <<>>], {})

\* The fetch awaited by the call is answered with data, or fails (failed):
\* a non-empty answer adds a dataset, and the call runs on.
historyAnswered(ch, r, data, failed) ==
    LET sensor == Head(r.pending)
        built == IF failed \/ data = <<>> THEN r.datasets
                 ELSE Append(r.datasets, historyDataset(sensor, data))
    IN  advance(ch, [r EXCEPT !.pending = Tail(@), !.datasets = built], {})

(***************************************************************************)
(* The alarm timeline of AlarmHistoryController: the chart, once           *)
(* _initializeTimelineChart has created it, and its buckets, the count of  *)
(* critical and of warning alarms per calendar day.                        *)
(***************************************************************************)
NoTimeline == [ready |-> FALSE, buckets |-> EmptyMap]

\* new Date(alarm.timestamp).toDateString(): the calendar day of an instant.
DayOf(ts) == ts \div 86400000

CountOn(alarmList, day, level) ==
    Cardinality({i \in DOMAIN alarmList :
                    DayOf(alarmList[i].timestamp) = day /\ alarmList[i].level = level})

\* alarmsByDate of _updateTimelineChart
alarmsByDate(alarmList) ==
    [day \in {DayOf(alarmList[i].timestamp) : i \in DOMAIN alarmList} |->
        [critical |-> CountOn(alarmList, day, "critical"),
         warning |-> CountOn(alarmList, day, "warning")]]

\* _updateTimelineChart: nothing without the chart.
_updateTimelineChart(tl, alarmList) ==
    IF ~tl.ready THEN tl ELSE [tl EXCEPT !.buckets = alarmsByDate(alarmList)]

\* The 'alarms' listener.  With an undefined entry in the collection the
\* listener throws a TypeError on reading a field of it, before the buckets
\* are assigned; _notify catches it.
onAlarms(tl, alarmList) ==
    IF \E i \in DOMAIN alarmList : ~alarmList[i].defined THEN tl
    ELSE _updateTimelineChart(tl, alarmList)

RECURSIVE deliverAlarms(_, _)
deliverAlarms(tl, notes) ==
    IF notes = <<>> THEN tl
    ELSE IF Head(notes).key = "alarms"
         THEN deliverAlarms(onAlarms(tl, Head(notes).data.alarms), Tail(notes))
         ELSE deliverAlarms(tl, Tail(notes))

\* _initializeTimelineChart: createChart with datasets: [].
_initializeTimelineChart(tl) == [ready |-> TRUE, buckets |-> EmptyMap]

(***************************************************************************)
(* The Electron main process (main.js): the start-up handler of            *)
(* app.whenReady, which starts the backend, polls its health and creates   *)
(* the main window.  phase is the await or timer the handler is at; checks *)
(* counts the calls of checkBackendHealth, healthy tells that one of them  *)
(* got HTTP 200, backendReady is what waitForBackend returned, and created *)
(* counts the calls of createWindow.                                       *)
(***************************************************************************)
maxAttempts == 30

NotLaunched ==
    [phase |-> "launching", isDev |-> FALSE, platform |-> "linux", attempt |-> 0, checks |-> 0,
     healthy |-> FALSE, backendReady |-> "pending", rejected |-> FALSE, window |-> FALSE,
     created |-> 0, activateSet |-> FALSE]

\* createWindow()
createWindow(l) == [l EXCEPT !.window = TRUE, !.created = @ + 1]

\* setTimeout(() => app.quit(), 3000); return
scheduleQuit(l) == [l EXCEPT !.phase = "quitTimer"]

\* The handler after waitForBackend has returned: the window and, past the
\* menu, the 'activate' listener, or the quit timer.
WindowAnyway(l, backendReady) ==
    [createWindow(l) EXCEPT !.phase = "running", !.activateSet = TRUE,
                            !.backendReady = IF backendReady THEN "true" ELSE "false"]

afterWaitForBackend(l, backendReady) ==
    IF backendReady
    THEN [createWindow(l) EXCEPT !.phase = "running", !.activateSet = TRUE, !.backendReady = "true"]
    ELSE [scheduleQuit(l) EXCEPT !.backendReady = "false"]

\* waitForBackend after checkBackendHealth has resolved: return true, or
\* wait one second.
healthChecked(l, isHealthy) ==
    LET counted == [l EXCEPT !.checks = @ + 1, !.healthy = @ \/ isHealthy]
    IN  IF isHealthy THEN afterWaitForBackend(counted, TRUE)
        ELSE [counted EXCEPT !.phase = "waiting"]

\* ... and after the second has passed: attempt++, and the next check, or
\* return false when attempt exceeds maxAttempts.
retry(l) ==
    IF l.attempt + 1 <= maxAttempts
    THEN [l EXCEPT !.attempt = @ + 1, !.phase = "checking"]
    ELSE afterWaitForBackend([l EXCEPT !.attempt = @ + 1], FALSE)

(***************************************************************************)
(* State.                                                                  *)
(***************************************************************************)
VARIABLES
    state,             \* DataStore.state
    emitted,           \* the notifications of the latest handler, in order
    now,               \* Date.now()
    socket,            \* the socket.io socket: none / opening / open / closed
    onceConnect,       \* the once('connect') handler of API.connect is armed
    onceError,         \* the once('connect_error') handler is armed
    handlersSet,       \* API._setupEventHandlers has run on the socket
    alarmFetch,        \* the alarm-history request of AlarmHistoryController.init
    snapshotInFlight,  \* GET /sensors requests in flight
    statsInFlight,     \* GET /dashboard/stats requests in flight
    ackInFlight,       \* the alarm ids of the POST /alarms/{id}/acknowledge requests in flight
    reloads,           \* the _loadHistoricalData calls made, each with its position
    timeline,          \* AlarmHistoryController.timelineChart: created or not, and its buckets
    charts,            \* SensorHistoryController.charts[type].data.datasets
    selection,         \* the values of sensorTypeSelect, deviceSelect, dateRangeSelect
    lastOp,            \* the step taken last
    accepted,          \* per sensor record, the readings accepted since it was created
    arrivals,          \* the alarms handed to addAlarm since the collection was last replaced
    chartedAt,         \* per sensor id, the time its latest point was added to a chart
    nEvents,           \* push events received
    nClock,            \* clock advances taken
    nDrops,            \* disconnects seen
    probe,             \* the input of a status derivation
    probeOut,          \* its result
    listeners,         \* DataStore.listeners, for the callbacks subscribed besides the views
    invoked,           \* the calls those callbacks got from the latest handler, in order
    liveSince,         \* the subscriptions in force, each with the number of its subscribe call
    handles,           \* the unsubscribe functions handed out so far
    nSubs,             \* subscribe calls made
    launch             \* the Electron main process: its start-up, its main window

storeVars == <<state, emitted>>
transportVars == <<socket, onceConnect, onceError, handlersSet>>
requestVars == <<alarmFetch, snapshotInFlight, statsInFlight, ackInFlight, reloads>>
viewVars == <<charts, selection, timeline>>
ghostVars == <<accepted, arrivals, chartedAt>>
countVars == <<nEvents, nClock, nDrops>>
probeVars == <<probe, probeOut>>
busVars == <<listeners, invoked, liveSince, handles, nSubs>>
vars == <<storeVars, now, transportVars, requestVars, viewVars, lastOp, ghostVars, countVars,
          probeVars, launch, busVars>>

(***************************************************************************)
(* Bounds of the model.                                                    *)
(***************************************************************************)
StartTime == 1000000
MaxEvents == 3
MaxClock == 2
MaxDrops == 1
MaxReloads == 2
MaxWindows == 2

\* A sensor descriptor, as the snapshot lists and 'sensor_connected' carry
\* it; "" stands for a field that is not there.
Descriptor(id, type, location, status) ==
    [sensor_id |-> id, id |-> "", sensor_type |-> type, type |-> "", location |-> location,
     status |-> status]
NoDescriptor == Descriptor("", "", "", "")

\* The step taken last, with what it was given and what it found.
NoArg ==
    [sensorId |-> "", value |-> Undefined, timestamp |-> Undefined, known |-> FALSE,
     plotted |-> FALSE, sincePlotted |-> 0 - 1, alarmId |-> 0, before |-> <<>>, armed |-> FALSE,
     key |-> "", callback |-> "", sensorsBefore |-> EmptyMap, list |-> <<>>, given |-> <<>>,
     partial |-> NoDescriptor, carried |-> Undefined, alarm |-> NoAlarm, reload |-> 0,
     installed |-> {}]
Op(name, arg) == [op |-> name, arg |-> arg]
\* No callback subscribed yet.
NoSubscribers ==
    /\ listeners = EmptyMap
    /\ invoked = <<>>
    /\ liveSince = {}
    /\ handles = {}
    /\ nSubs = 0

NoProbe == [type |-> "", value |-> Null, lastUpdate |-> NoDate, at |-> 0]

Init ==
    /\ state = NewStore
    /\ emitted = <<>>
    /\ now = StartTime
    /\ socket = "none"
    /\ onceConnect = FALSE
    /\ onceError = FALSE
    /\ handlersSet = FALSE
    /\ alarmFetch = "pending"
    /\ snapshotInFlight = 0
    /\ statsInFlight = 0
    /\ ackInFlight = {}
    /\ reloads = <<>>
    /\ timeline = NoTimeline
    /\ charts = [type \in ChartTypes |-> <<>>]
    /\ selection = [type |-> "", devices |-> {}, range |-> "week", view |-> "dashboard"]
    /\ lastOp = Op("init", NoArg)
    /\ accepted = EmptyMap
    /\ arrivals = <<>>
    /\ chartedAt = EmptyMap
    /\ nEvents = 0
    /\ nClock = 0
    /\ nDrops = 0
    /\ probe = NoProbe
    /\ probeOut = ""
    /\ launch = NotLaunched
    /\ NoSubscribers

(***************************************************************************)
(* Steps.  Each is one handler of the program, run to completion: the      *)
(* store operation it calls, the notifications that operation emits and    *)
(* the listeners those notifications run.                                  *)
(***************************************************************************)
\* SensorHistoryController._loadDevices, the 'sensors' listener: the device
\* select is rebuilt from the sensors of the selected type, and an option
\* stays selected only if it was selected and is still listed.
_loadDevices(sel, sensors) ==
    [sel EXCEPT !.devices =
        {id \in @ : id \in DOMAIN sensors /\ (sel.type = "" \/ sensors[id].type = sel.type)}]

RECURSIVE deliverSensors(_, _)
deliverSensors(sel, notes) ==
    IF notes = <<>> THEN sel
    ELSE IF Head(notes).key = "sensors"
         THEN deliverSensors(_loadDevices(sel, Head(notes).data.sensors), Tail(notes))
         ELSE deliverSensors(sel, Tail(notes))

\* The store's effect of a handler: the new state, what was emitted, and the
\* listeners of the view.
ApplyStore(r) ==
    /\ state' = r.state
    /\ emitted' = r.notes
    /\ charts' = deliverSensorData(charts, selection, r.notes)
    /\ selection' = deliverSensors(selection, r.notes)
    /\ invoked' = notifyAll(listeners, r.notes)
    /\ UNCHANGED <<listeners, liveSince, handles, nSubs>>

Apply(r) ==
    /\ ApplyStore(r)
    /\ timeline' = deliverAlarms(timeline, r.notes)

Quiet ==
    /\ emitted' = <<>>
    /\ invoked' = <<>>
    /\ UNCHANGED <<state, viewVars, listeners, liveSince, handles, nSubs>>

\* API.request rejected (fetch failed, or the response is not ok): the caller's
\* catch logs the error and the store operation of the success path is not run.
FailureClears(st) ==
    Result([st EXCEPT !.sensors = EmptyMap], <<Note("sensors", SensorsData(EmptyMap))>>)

FailureSetsError(st) == setConnectionStatus(st, "error")

requestFailed(st) == Result(st, <<>>)

\* AlarmHistoryController._loadAlarmHistory, the request answered.
AlarmHistoryLoaded(alarmList) ==
    /\ alarmFetch = "pending"
    /\ alarmFetch' = "done"
    /\ LET r == setAlarms(state, alarmList)
       IN  /\ ApplyStore(r)
           /\ timeline' = _initializeTimelineChart(deliverAlarms(timeline, r.notes))
    /\ arrivals' = <<>>
    /\ lastOp' = Op("setAlarms", [NoArg EXCEPT !.given = alarmList])
    /\ UNCHANGED <<now, transportVars, snapshotInFlight, statsInFlight, ackInFlight, accepted, chartedAt,
                   countVars, probeVars, launch, reloads>>

\* ... and the request failed: the error is logged.
AlarmHistoryFailed ==
    /\ alarmFetch = "pending"
    /\ alarmFetch' = "failed"
    /\ LET r == requestFailed(state)
       IN  /\ ApplyStore(r)
           /\ timeline' = _initializeTimelineChart(deliverAlarms(timeline, r.notes))
    /\ lastOp' = Op("alarmHistoryFailed", NoArg)
    /\ UNCHANGED <<now, transportVars, snapshotInFlight, statsInFlight, ackInFlight, ghostVars, countVars,
                   probeVars, launch, reloads>>

\* API.connect(), called once by IoTDashboard.init after the controllers' init.
Connect ==
    /\ alarmFetch # "pending"
    /\ socket = "none"
    /\ socket' = "opening"
    /\ onceConnect' = TRUE
    /\ onceError' = TRUE
    /\ Apply(setConnectionStatus(state, "connecting"))
    /\ lastOp' = Op("connect", NoArg)
    /\ UNCHANGED <<now, handlersSet, requestVars, ghostVars, countVars, probeVars, launch>>

\* The socket's 'connect' event, the first one or one after a reconnection.
SocketConnect ==
    /\ socket \in {"opening", "closed"}
    /\ socket' = "open"
    /\ IF onceConnect
       THEN /\ Apply(setConnectionStatus(state, "connected"))
            /\ handlersSet' = TRUE
            /\ snapshotInFlight' = snapshotInFlight + 1
       ELSE /\ Quiet
            /\ UNCHANGED <<handlersSet, snapshotInFlight>>
    /\ onceConnect' = FALSE
    /\ lastOp' = Op("socketConnect", [NoArg EXCEPT !.armed = onceConnect])
    /\ UNCHANGED <<now, onceError, alarmFetch, ackInFlight, statsInFlight, ghostVars, countVars, probeVars, launch, reloads>>

\* The socket's 'connect_error' event.
SocketConnectError ==
    /\ socket \in {"opening", "closed"}
    /\ IF onceError
       THEN Apply(setConnectionStatus(state, "error"))
       ELSE Quiet
    /\ onceError' = FALSE
    /\ lastOp' = Op("socketConnectError", [NoArg EXCEPT !.armed = onceError])
    /\ UNCHANGED <<now, socket, onceConnect, handlersSet, requestVars, ghostVars, countVars,
                   probeVars, launch>>

\* The socket's 'disconnect' event.
SocketDisconnect ==
    /\ socket = "open"
    /\ nDrops < MaxDrops
    /\ nDrops' = nDrops + 1
    /\ socket' = "closed"
    /\ IF handlersSet
       THEN Apply(setConnectionStatus(state, "disconnected"))
       ELSE Quiet
    /\ lastOp' = Op("socketDisconnect", NoArg)
    /\ UNCHANGED <<now, onceConnect, onceError, handlersSet, requestVars, ghostVars, nEvents,
                   nClock, probeVars, launch>>

\* 'sensorsLoaded': the snapshot of _setupEventHandlers answered.
SensorsLoaded(list) ==
    /\ snapshotInFlight > 0
    /\ snapshotInFlight' = snapshotInFlight - 1
    /\ statsInFlight' = statsInFlight + 1
    /\ LET r == setSensors(state, list)
       IN  /\ Apply(r)
           /\ accepted' = [id \in DOMAIN r.state.sensors |-> <<>>]
    /\ lastOp' = Op("setSensors", [NoArg EXCEPT !.list = list, !.sensorsBefore = state.sensors])
    /\ UNCHANGED <<now, transportVars, alarmFetch, ackInFlight, arrivals, chartedAt, countVars, probeVars, launch, reloads>>

SnapshotFailed ==
    /\ snapshotInFlight > 0
    /\ snapshotInFlight' = snapshotInFlight - 1
    /\ Apply(requestFailed(state))
    /\ lastOp' = Op("snapshotFailed", NoArg)
    /\ UNCHANGED <<now, transportVars, alarmFetch, ackInFlight, statsInFlight, ghostVars, countVars,
                   probeVars, launch, reloads>>

\* IoTDashboard._loadSystemStats, answered or failed.
StatsLoaded(stats) ==
    /\ statsInFlight > 0
    /\ statsInFlight' = statsInFlight - 1
    /\ Apply(updateSystemStats(state, stats))
    /\ lastOp' = Op("updateSystemStats", NoArg)
    /\ UNCHANGED <<now, transportVars, alarmFetch, ackInFlight, snapshotInFlight, ghostVars, countVars,
                   probeVars, launch, reloads>>

StatsFailed ==
    /\ statsInFlight > 0
    /\ statsInFlight' = statsInFlight - 1
    /\ Apply(requestFailed(state))
    /\ lastOp' = Op("statsFailed", NoArg)
    /\ UNCHANGED <<now, transportVars, alarmFetch, ackInFlight, snapshotInFlight, ghostVars, countVars,
                   probeVars, launch, reloads>>

Listening == socket = "open" /\ handlersSet
Receiving == Listening /\ nEvents < MaxEvents

\* 'sensorConnected'
SensorConnected(sensorData) ==
    /\ Receiving
    /\ nEvents' = nEvents + 1
    /\ LET r == addOrUpdateSensor(state, sensorData)
       IN  /\ Apply(r)
           /\ accepted' = [id \in DOMAIN r.state.sensors |->
                              IF id \in DOMAIN accepted THEN accepted[id] ELSE <<>>]
    /\ lastOp' = Op("addOrUpdateSensor",
                    [NoArg EXCEPT !.sensorId = OrStr(sensorData.sensor_id, sensorData.id),
                                  !.partial = sensorData,
                                  !.sensorsBefore = state.sensors])
    /\ UNCHANGED <<now, transportVars, requestVars, arrivals, chartedAt, nClock, nDrops,
                   probeVars, launch>>

\* data.data?.value || data.value
eventValue(data) == Or(IF data.data.present THEN data.data.value ELSE Undefined, data.value)

\* The value a sensor_update event carries, in data.value or in value.
carriedValue(data) == IF data.data.present THEN data.data.value ELSE data.value

\* The points the charts hold for one sensor id.
RECURSIVE countPoints(_, _)
countPoints(datasets, sensorId) ==
    IF datasets = <<>> THEN 0
    ELSE (IF Head(datasets).sid = sensorId THEN Len(Head(datasets).data) ELSE 0)
         + countPoints(Tail(datasets), sensorId)

pointsOf(ch, sensorId) ==
    countPoints(ch["humidity"], sensorId) + countPoints(ch["vibration"], sensorId)
    + countPoints(ch["stress"], sensorId)

\* 'sensorUpdate'
onSensorUpdate(data) ==
    /\ nEvents' = nEvents + 1
    /\ LET value == eventValue(data)
           r == updateSensorData(state, data.sensor_id, value, data.timestamp, now)
           plotted == pointsOf(deliverSensorData(charts, selection, r.notes), data.sensor_id)
                      > pointsOf(charts, data.sensor_id)
       IN  /\ Apply(r)
           /\ accepted' =
                  IF data.sensor_id \in DOMAIN accepted /\ sanitize(value) # Null
                  THEN [accepted EXCEPT ![data.sensor_id] =
                           Append(@, [value |-> sanitize(value), timestamp |-> data.timestamp])]
                  ELSE accepted
           /\ chartedAt' = IF plotted THEN Put(chartedAt, data.sensor_id, now) ELSE chartedAt
           /\ lastOp' = Op("updateSensorData",
                           [NoArg EXCEPT
                               !.sensorId = data.sensor_id,
                               !.value = value,
                               !.carried = carriedValue(data),
                               !.timestamp = data.timestamp,
                               !.known = data.sensor_id \in DOMAIN state.sensors,
                               !.plotted = plotted,
                               !.sincePlotted = IF data.sensor_id \in DOMAIN chartedAt
                                                THEN now - chartedAt[data.sensor_id]
                                                ELSE 0 - 1])
    /\ UNCHANGED <<now, transportVars, requestVars, arrivals, nClock, nDrops, probeVars, launch>>

SensorUpdate(data) == Receiving /\ onSensorUpdate(data)

\* An alarm_update event; shape "nested" carries the alarm as the object
\* data.alarm, shape "flat" carries its fields as fields of the event itself,
\* and then data.alarm is undefined.
AlarmEvent(shape, alarm) ==
    [alarm |-> IF shape = "nested" THEN alarm ELSE NoAlarm,
     flat |-> IF shape = "flat" THEN alarm ELSE NoAlarm]

\* The alarm an alarm_update event carries, in either shape.
carriedAlarm(data) == IF data.alarm.defined THEN data.alarm ELSE data.flat

\* 'alarmUpdate': addAlarm(data.alarm)
onAlarmUpdate(data) ==
    /\ nEvents' = nEvents + 1
    /\ Apply(addAlarm(state, data.alarm))
    /\ arrivals' = Append(arrivals, data.alarm)
    /\ lastOp' = Op("addAlarm", [NoArg EXCEPT !.alarm = carriedAlarm(data)])
    /\ UNCHANGED <<now, transportVars, requestVars, accepted, chartedAt, nClock, nDrops,
                   probeVars, launch>>

AlarmUpdate(data) == Receiving /\ onAlarmUpdate(data)

\* DataStore.acknowledgeAlarm(alarmId)
AcknowledgeAlarm(alarmId) ==
    /\ Apply(acknowledgeAlarm(state, alarmId))
    /\ lastOp' = Op("acknowledgeAlarm", [NoArg EXCEPT !.alarmId = alarmId, !.before = state.alarms])
    /\ UNCHANGED <<now, transportVars, requestVars, ghostVars, countVars, probeVars, launch>>

\* API.acknowledgeAlarm(alarmId): the POST is sent ...
AcknowledgeRequested(alarmId) ==
    /\ alarmId \notin ackInFlight
    /\ ackInFlight' = ackInFlight \cup {alarmId}
    /\ Quiet
    /\ lastOp' = Op("acknowledgeRequested", [NoArg EXCEPT !.alarmId = alarmId])
    /\ UNCHANGED <<now, transportVars, alarmFetch, snapshotInFlight, statsInFlight, ghostVars,
                   countVars, probeVars, launch, reloads>>

\* ... and answered: the promise resolves with the response's JSON, which
\* is all the method does with it.
AcknowledgeSucceeded(alarmId) ==
    /\ alarmId \in ackInFlight
    /\ ackInFlight' = ackInFlight \ {alarmId}
    /\ Quiet
    /\ lastOp' = Op("acknowledgeSucceeded",
                    [NoArg EXCEPT !.alarmId = alarmId, !.before = state.alarms])
    /\ UNCHANGED <<now, transportVars, alarmFetch, snapshotInFlight, statsInFlight, ghostVars,
                   countVars, probeVars, launch, reloads>>

\* ... or rejected: the promise rejects.
AcknowledgeRejected(alarmId) ==
    /\ alarmId \in ackInFlight
    /\ ackInFlight' = ackInFlight \ {alarmId}
    /\ Apply(requestFailed(state))
    /\ lastOp' = Op("acknowledgeRejected",
                    [NoArg EXCEPT !.alarmId = alarmId, !.before = state.alarms])
    /\ UNCHANGED <<now, transportVars, alarmFetch, snapshotInFlight, statsInFlight, ghostVars,
                   countVars, probeVars, launch, reloads>>

\* The wall clock moves on.
AdvanceClock(d) ==
    /\ nClock < MaxClock
    /\ nClock' = nClock + 1
    /\ now' = now + d
    /\ Quiet
    /\ lastOp' = Op("clock", NoArg)
    /\ UNCHANGED <<transportVars, requestVars, ghostVars, nEvents, nDrops, probeVars, launch>>

\* DashboardController._startPeriodicUpdates: the interval's callback, which
\* redraws the MQTT topics table.
PeriodicUpdate ==
    /\ Quiet
    /\ lastOp' = Op("periodicUpdate", NoArg)
    /\ UNCHANGED <<now, transportVars, requestVars, ghostVars, countVars, probeVars, launch>>

(***************************************************************************)
(* Inputs.                                                                 *)
(***************************************************************************)
SnapshotLists ==
    {<<Descriptor("S1", "humidity", "A", ""), Descriptor("S10", "vibration", "B", "online")>>}

ConnectedSensors ==
    {Descriptor("S10", "humidity", "", ""),
     Descriptor("S1", "", "C", "online"),
     [NoDescriptor EXCEPT !.id = "S2", !.type = "stress"],
     NoDescriptor}

\* A sensor_update event; shape "nested" carries data: {value}, shape "bare"
\* a value field of its own.
SensorEvent(id, shape, v, ts) ==
    [sensor_id |-> id,
     data |-> [present |-> shape = "nested", value |-> IF shape = "nested" THEN v ELSE Undefined],
     value |-> IF shape = "bare" THEN v ELSE Undefined,
     timestamp |-> ts]

EventIds == {"S1", "S9"}
EventValues == {Num(85), Num(50), Str(<<"a", "b", "c">>)}
EventLags == {0, StaleAfter + 1}
ClockSteps == {200, 1000, StaleAfter + 1}

SensorEvents ==
    {SensorEvent(id, "nested", v, Num(now - lag)) : id \in EventIds, v \in EventValues,
                                                    lag \in EventLags}

StatsValues == {"stats"}

(***************************************************************************)
(* Spec: the sensor pipeline, from connecting to the charts.               *)
(***************************************************************************)
Next ==
    \/ AlarmHistoryLoaded(<<>>)
    \/ Connect
    \/ SocketConnect
    \/ \E list \in SnapshotLists : SensorsLoaded(list)
    \/ \E data \in SensorEvents : SensorUpdate(data)
    \/ \E d \in ClockSteps : AdvanceClock(d)
    \/ PeriodicUpdate

Spec == Init /\ [][Next]_vars

(***************************************************************************)
(* SpecStatus: the status derivation as a function, applied to each        *)
(* combination of sensor type, last value, last update and clock.          *)
(***************************************************************************)
ProbeTypes == {"humidity", "vibration", "stress", "temperature"}
ProbeNumbers == {0 - 1, 0, 19, 20, 21, 30, 31, 49, 50, 51, 59, 60, 69, 70, 79, 80, 81, 100, 101}
ProbeValues ==
    {Null, Undefined, NaN, PosInfinity, NegInfinity}
    \cup {Num(n) : n \in ProbeNumbers}
    \cup {Str(<<"2", "0">>), Str(<<"8", "0", "x">>), Str(<<"a", "b", "c">>), Str(<<>>)}
ProbeAges == {0, StaleAfter, StaleAfter + 1}
ProbeDates == {NoDate, NewDate(NaN)} \cup {NewDate(Num(StartTime - age)) : age \in ProbeAges}

InitStatus ==
    /\ state = NewStore
    /\ emitted = <<>>
    /\ now = StartTime
    /\ socket = "none"
    /\ onceConnect = FALSE
    /\ onceError = FALSE
    /\ handlersSet = FALSE
    /\ alarmFetch = "pending"
    /\ snapshotInFlight = 0
    /\ statsInFlight = 0
    /\ ackInFlight = {}
    /\ reloads = <<>>
    /\ timeline = NoTimeline
    /\ charts = [type \in ChartTypes |-> <<>>]
    /\ selection = [type |-> "", devices |-> {}, range |-> "week", view |-> "dashboard"]
    /\ lastOp = Op("init", NoArg)
    /\ accepted = EmptyMap
    /\ arrivals = <<>>
    /\ chartedAt = EmptyMap
    /\ nEvents = 0
    /\ nClock = 0
    /\ nDrops = 0
    /\ probe \in [type : ProbeTypes, value : ProbeValues, lastUpdate : ProbeDates, at : {StartTime}]
    /\ probeOut = ""
    /\ launch = NotLaunched
    /\ NoSubscribers

ProbeSensor ==
    [NewSensor("P", probe.type, "A", "active") EXCEPT
        !.lastValue = probe.value, !.lastUpdate = probe.lastUpdate]

ProbeFrame ==
    UNCHANGED <<storeVars, now, transportVars, requestVars, viewVars, ghostVars, countVars, probe,
                launch, busVars>>

\* store._calculateSensorStatus(sensor)
DeriveStatus ==
    /\ probeOut' = _calculateSensorStatus(ProbeSensor, probe.at)
    /\ lastOp' = Op("_calculateSensorStatus", NoArg)
    /\ ProbeFrame

\* api.getSensorStatus(value, sensorType)
ClassifyValue ==
    /\ probeOut' = getSensorStatus(probe.value, probe.type)
    /\ lastOp' = Op("getSensorStatus", NoArg)
    /\ ProbeFrame

\* getSensorStatus(value, sensorType) of api.js
ClassifyValueLegacy ==
    /\ probeOut' = legacyGetSensorStatus(probe.value, probe.type)
    /\ lastOp' = Op("legacyGetSensorStatus", NoArg)
    /\ ProbeFrame

NextStatus == DeriveStatus \/ ClassifyValue \/ ClassifyValueLegacy

SpecStatus == InitStatus /\ [][NextStatus]_vars

StatusClasses == {"offline", "critical", "warning", "normal"}

\* C4: the status derivation of the store and the classification of the API
\* return one of the four classes offline, critical, warning, normal for every
\* sensor type, last value and staleness.
C4_FourClasses ==
    lastOp.op \in {"_calculateSensorStatus", "getSensorStatus"} => probeOut \in StatusClasses

\* The boundary values the threshold table puts in a critical and in a
\* warning range.
Overlaps ==
    {<<"humidity", 20>>, <<"humidity", 80>>, <<"vibration", 50>>, <<"stress", 80>>}

InBothRanges(sensorType, value) ==
    /\ sensorType \in DOMAIN thresholds
    /\ ~IsNullish(value)
    /\ checkRanges(thresholds[sensorType].critical, value)
    /\ checkRanges(thresholds[sensorType].warning, value)

\* C5: for a value that lies in a critical and in a warning range of its
\* sensor type getSensorStatus returns critical; humidity 20 and 80,
\* vibration 50 and stress 80 are such values.
C5_CriticalPrecedence ==
    lastOp.op \in {"getSensorStatus", "legacyGetSensorStatus"} =>
        /\ InBothRanges(probe.type, probe.value) => probeOut = "critical"
        /\ (probe.value.t = "number" /\ probe.value.k = "finite"
                /\ <<probe.type, probe.value.n>> \in Overlaps)
            => InBothRanges(probe.type, probe.value)

C5_Witness ==
    /\ lastOp.op = "getSensorStatus"
    /\ probe.type = "stress"
    /\ probe.value = Num(80)
    /\ probeOut = "critical"

(***************************************************************************)
(* Properties of the sensor pipeline (Spec).                               *)
(***************************************************************************)
ReadingApplied == lastOp.op = "updateSensorData" /\ lastOp.arg.known
Fresh(timestamp) == timestamp.k = "finite" /\ now - timestamp.n <= StaleAfter

\* C3: a sensor of the store whose last reading is more than 300000 ms old is
\* offline once the periodic tick has run: after a tick, every stale sensor
\* has the stored status offline.
C3_OfflineAfterTick ==
    lastOp.op = "periodicUpdate" =>
        \A id \in DOMAIN state.sensors :
            (state.sensors[id].lastUpdate.set /\ IsStale(state.sensors[id].lastUpdate, now))
                => state.sensors[id].status = "offline"

\* C6: after a reading with a fresh timestamp is applied to a known sensor,
\* the stored status is the threshold classification of the sanitized value
\* for the sensor's type.
C6_StatusFollowsReading ==
    (ReadingApplied /\ Fresh(lastOp.arg.timestamp)) =>
        state.sensors[lastOp.arg.sensorId].status =
            getSensorStatus(sanitize(lastOp.arg.value), state.sensors[lastOp.arg.sensorId].type)

\* C9: an event for a sensor that arrives less than 1000 ms after the last
\* event plotted for that sensor adds no point to the chart, while the store
\* takes its value as lastValue.
C9_ChartThrottled ==
    (ReadingApplied /\ lastOp.arg.sincePlotted >= 0 /\ lastOp.arg.sincePlotted < throttleDelay) =>
        /\ ~lastOp.arg.plotted
        /\ state.sensors[lastOp.arg.sensorId].lastValue = sanitize(lastOp.arg.value)

\* C10: a reading for a sensor id the store does not hold changes nothing:
\* the store state and the charts stay as they were, no sensor is created and
\* no notification is emitted.
C10_UnknownSensorNoOp ==
    [][(lastOp'.op = "updateSensorData" /\ ~lastOp'.arg.known) =>
           /\ state' = state
           /\ charts' = charts
           /\ emitted' = <<>>
           /\ lastOp'.arg.sensorId \notin DOMAIN state'.sensors]_vars

C10_Witness ==
    /\ lastOp.op = "updateSensorData"
    /\ ~lastOp.arg.known
    /\ DOMAIN state.sensors # {}
    /\ sanitize(lastOp.arg.value) # Null

(***************************************************************************)
(* SpecReadings and SpecAlarmsCap: long runs of push events, from the      *)
(* state the dashboard is in once the alarm history (empty) and the sensor *)
(* snapshot have been loaded over an open socket, the history view         *)
(* showing the vibration sensors.                                          *)
(***************************************************************************)
MaxReadings == 103
MaxAlarms == 1002

LoadedList == <<Descriptor("S1", "humidity", "A", "")>>

Loaded ==
    setSensors(setConnectionStatus(setAlarms(NewStore, <<>>).state, "connected").state,
               LoadedList)

InitLoaded ==
    /\ state = Loaded.state
    /\ emitted = Loaded.notes
    /\ now = StartTime
    /\ socket = "open"
    /\ onceConnect = FALSE
    /\ onceError = TRUE
    /\ handlersSet = TRUE
    /\ alarmFetch = "done"
    /\ snapshotInFlight = 0
    /\ statsInFlight = 1
    /\ ackInFlight = {}
    /\ reloads = <<>>
    /\ timeline = _initializeTimelineChart(NoTimeline)
    /\ charts = [type \in ChartTypes |-> <<>>]
    /\ selection = [type |-> "vibration", devices |-> {}, range |-> "week", view |-> "dashboard"]
    /\ lastOp = Op("setSensors", [NoArg EXCEPT !.list = LoadedList])
    /\ accepted = [id \in DOMAIN Loaded.state.sensors |-> <<>>]
    /\ arrivals = <<>>
    /\ chartedAt = EmptyMap
    /\ nEvents = 0
    /\ nClock = 0
    /\ nDrops = 0
    /\ probe = NoProbe
    /\ probeOut = ""
    /\ launch = NotLaunched
    /\ NoSubscribers

\* The k-th event of the run carries the value k and a timestamp that goes
\* back and forth, so that arrival order and timestamp order differ.
Jitter(k) == (k * 3) % 5

\* The positions of the run at which an unparsable value may arrive instead.
RejectAt == {2, ReadingsCap + 1}

ReadingArrives ==
    /\ Listening
    /\ nEvents < MaxReadings
    /\ onSensorUpdate(SensorEvent("S1", "nested", Num(nEvents + 1), Num(now - Jitter(nEvents))))

GarbageArrives ==
    /\ Listening
    /\ nEvents < MaxReadings
    /\ nEvents \in RejectAt
    /\ onSensorUpdate(SensorEvent("S1", "nested", Str(<<"a", "b", "c">>), Num(now)))

NextReadings == ReadingArrives \/ GarbageArrives

SpecReadings == InitLoaded /\ [][NextReadings]_vars

lastN(seq, n) == SubSeq(seq, Len(seq) - n + 1, Len(seq))
Min(a, b) == IF a <= b THEN a ELSE b

\* C1: the readings buffer of every sensor of the store holds at most 100
\* readings.
C1_ReadingsBounded ==
    \A id \in DOMAIN state.sensors : Len(state.sensors[id].readings) <= ReadingsCap

C1_Witness ==
    /\ Len(accepted["S1"]) > ReadingsCap
    /\ Len(state.sensors["S1"].readings) = ReadingsCap

\* C2: the readings buffer of a sensor is the last min(k, 100) of the k
\* readings accepted for it so far (those whose sanitized value is present),
\* in arrival order.
C2_LastAccepted ==
    \A id \in DOMAIN state.sensors :
        state.sensors[id].readings =
            lastN(accepted[id], Min(Len(accepted[id]), ReadingsCap))

C2_Witness ==
    /\ lastOp.op = "updateSensorData"
    /\ lastOp.arg.known
    /\ sanitize(lastOp.arg.value) = Null
    /\ Len(accepted["S1"]) > ReadingsCap
    /\ state.sensors["S1"].readings[1] = accepted["S1"][Len(accepted["S1"]) - ReadingsCap + 1]

AlarmArrives ==
    /\ Listening
    /\ nEvents < MaxAlarms
    /\ \E level \in (IF nEvents % 500 = 1 THEN {"warning", "critical"} ELSE {"warning"}) :
           onAlarmUpdate(AlarmEvent("nested", Alarm(nEvents + 1, "S1", level,
                                                    StartTime - Jitter(nEvents))))

NextAlarmsCap == AlarmArrives

SpecAlarmsCap == InitLoaded /\ [][NextAlarmsCap]_vars

\* C7: after n addAlarm calls on the empty collection the collection holds
\* min(n, 1000) alarms, the newest arrival first: its i-th alarm is the i-th
\* latest arrival, whatever the timestamps.
C7_NewestFirstCapped ==
    /\ Len(state.alarms) = Min(Len(arrivals), AlarmsCap)
    /\ \A i \in 1..Len(state.alarms) : state.alarms[i] = arrivals[Len(arrivals) + 1 - i]

C7_Witness ==
    /\ Len(arrivals) = AlarmsCap + 1
    /\ Len(state.alarms) = AlarmsCap
    /\ state.alarms[AlarmsCap] = arrivals[2]
    /\ \E i \in 1..5 : state.alarms[i].timestamp < state.alarms[i + 1].timestamp

(***************************************************************************)
(* SpecAlarms: the alarm collection, from start-up: the history load, the  *)
(* pushed alarms and the acknowledgements.                                 *)
(***************************************************************************)
AlarmLists ==
    {<<>>,
     <<Alarm(1, "S1", "warning", StartTime - 20), Alarm(2, "S1", "critical", StartTime - 10)>>,
     <<Alarm(1, "S1", "warning", StartTime - 20), Alarm(1, "S10", "critical", StartTime - 20)>>,
     <<Alarm(4, "S1", "warning", StartTime - 20), Alarm(5, "S1", "critical", StartTime),
       Alarm(6, "S10", "warning", StartTime - 20), Alarm(7, "S10", "warning", StartTime - 10)>>}

AlarmEvents ==
    {AlarmEvent("nested", Alarm(2, "S1", "critical", StartTime - 30)),
     AlarmEvent("nested", Alarm(3, "S10", "warning", StartTime + 86400000)),
     AlarmEvent("flat", Alarm(8, "S1", "warning", StartTime))}

AlarmIds == {1, 2, 9}

NextAlarms ==
    \/ \E alarmList \in AlarmLists : AlarmHistoryLoaded(alarmList)
    \/ AlarmHistoryFailed
    \/ Connect
    \/ SocketConnect
    \/ \E data \in AlarmEvents : AlarmUpdate(data)
    \/ \E alarmId \in AlarmIds : AcknowledgeAlarm(alarmId)

SpecAlarms == Init /\ [][NextAlarms]_vars

RawValues ==
    {Num(85), Num(0), NaN, PosInfinity, NegInfinity, Null, Undefined, Obj,
     Str(<<"2", "0">>), Str(<<"a", "b", "c">>), Str(<<>>),
     Str(InfinityChars), Str(<<"-">> \o InfinityChars)}

EventShapes == {"nested", "bare"}

RawEvents == {SensorEvent("S1", shape, v, Num(now)) : shape \in EventShapes, v \in RawValues}

NextValues == \E data \in RawEvents : SensorUpdate(data)

SpecValues == InitLoaded /\ [][NextValues]_vars

\* What the store may hold as a value: absent, or a finite number.
IsStorable(v) == v = Null \/ IsFiniteNum(v)

\* C11: no sensor's lastValue and no entry of a readings buffer is NaN or a
\* non-finite number; a raw value that is non-finite or unparsable is stored
\* as absent, a numeric string as the parsed number.
C11_OnlyFiniteStored ==
    \A id \in DOMAIN state.sensors :
        /\ IsStorable(state.sensors[id].lastValue)
        /\ \A i \in DOMAIN state.sensors[id].readings :
               IsFiniteNum(state.sensors[id].readings[i].value)

(***************************************************************************)
(* SpecBus: callbacks subscribing to and unsubscribing from the alarm      *)
(* categories while alarms are pushed.                                     *)
(***************************************************************************)
MaxSubs == 3
MaxNotes == 2

BusKeys == {"newAlarm", "alarms"}
Callbacks == {"c1", "c2", "c3"}

Handle(key, callback) == [key |-> key, callback |-> callback]
Live(key, callback) == \E l \in liveSince : l.key = key /\ l.callback = callback

BusFrame ==
    /\ emitted' = <<>>
    /\ invoked' = <<>>
    /\ UNCHANGED <<state, now, transportVars, requestVars, viewVars, ghostVars, countVars,
                   probeVars, launch>>

\* store.subscribe(key, callback)
Subscribe(key, callback) ==
    /\ nSubs < MaxSubs
    /\ nSubs' = nSubs + 1
    /\ listeners' = subscribe(listeners, key, callback)
    /\ liveSince' = IF Live(key, callback) THEN liveSince
                    ELSE liveSince \cup {[key |-> key, callback |-> callback, at |-> nSubs + 1]}
    /\ handles' = handles \cup {Handle(key, callback)}
    /\ lastOp' = Op("subscribe", [NoArg EXCEPT !.key = key, !.callback = callback])
    /\ BusFrame

\* A function that subscribe returned is called.
Unsubscribe(h) ==
    /\ listeners' = unsubscribe(listeners, h.key, h.callback)
    /\ liveSince' = {l \in liveSince : ~(l.key = h.key /\ l.callback = h.callback)}
    /\ lastOp' = Op("unsubscribe", [NoArg EXCEPT !.key = h.key, !.callback = h.callback])
    /\ UNCHANGED <<handles, nSubs>>
    /\ BusFrame

AlarmPushed ==
    /\ Listening
    /\ nEvents < MaxNotes
    /\ onAlarmUpdate([alarm |-> Alarm(nEvents + 1, "S1", "warning", StartTime)])

NextBus ==
    \/ \E key \in BusKeys, callback \in Callbacks : Subscribe(key, callback)
    \/ \E h \in handles : Unsubscribe(h)
    \/ AlarmPushed

SpecBus == InitLoaded /\ [][NextBus]_vars

\* The calls made for the n-th notification of the latest handler.
CallsFor(n) ==
    SelectSeq(invoked, LAMBDA c : c.key = emitted[n].key /\ c.data = emitted[n].data)
LiveCallbacks(key) == {l.callback : l \in {x \in liveSince : x.key = key}}
Stamp(key, callback) ==
    (CHOOSE l \in liveSince : l.key = key /\ l.callback = callback).at

\* C12: when a callback throws during a notification, the callbacks
\* subscribed after it are still called with the same data, the store keeps
\* the change that was notified, and the subscriptions are as they were.
C12_ThrowIsolated ==
    \A n \in DOMAIN emitted :
        \A i \in DOMAIN invoked :
            (invoked[i].key = emitted[n].key /\ invoked[i].threw) =>
                /\ \A later \in LiveCallbacks(emitted[n].key) :
                       Stamp(emitted[n].key, later) > Stamp(emitted[n].key, invoked[i].callback)
                           => \E j \in DOMAIN invoked :
                                  /\ j > i
                                  /\ invoked[j] = Invocation(emitted[n].key, later, emitted[n].data)
                /\ lastOp.op = "addAlarm" /\ state.alarms # <<>>
                /\ state.alarms[1] = emitted[1].data.alarm
                /\ \A key \in BusKeys :
                       LiveCallbacks(key) =
                           (IF key \in DOMAIN listeners THEN Members(listeners[key]) ELSE {})

C12_Witness ==
    /\ "alarms" \in DOMAIN listeners
    /\ listeners["alarms"] = <<"c1", "c2", "c3">>
    /\ Len(invoked) = 3
    /\ invoked[2].threw
    /\ invoked[3].callback = "c3"

\* C13: a notification calls every callback subscribed to its category once,
\* in the order of their subscribe calls.
C13_AllOnceInOrder ==
    \A n \in DOMAIN emitted :
        LET calls == CallsFor(n)
        IN  /\ {calls[i].callback : i \in DOMAIN calls} = LiveCallbacks(emitted[n].key)
            /\ Len(calls) = Cardinality(LiveCallbacks(emitted[n].key))
            /\ \A i, j \in DOMAIN calls :
                   i < j => Stamp(emitted[n].key, calls[i].callback)
                                < Stamp(emitted[n].key, calls[j].callback)

C13_Witness ==
    /\ lastOp.op = "addAlarm"
    /\ Len(invoked) = 3
    /\ invoked[1].key = "newAlarm"
    /\ invoked[2].key = "alarms"
    /\ invoked[3].key = "alarms"
    /\ invoked[2].callback # "c1"

\* C14: a callback whose unsubscribe function has been called gets no later
\* notification of the category, and right after the call the category and
\* every other one hold the remaining callbacks in their subscription order.
C14_Unsubscribed ==
    /\ \A i \in DOMAIN invoked : Live(invoked[i].key, invoked[i].callback)
    /\ lastOp.op = "unsubscribe" =>
           /\ ~Live(lastOp.arg.key, lastOp.arg.callback)
           /\ \A key \in DOMAIN listeners :
                  /\ Members(listeners[key]) = LiveCallbacks(key)
                  /\ Len(listeners[key]) = Cardinality(LiveCallbacks(key))
                  /\ \A i, j \in DOMAIN listeners[key] :
                         i < j => Stamp(key, listeners[key][i]) < Stamp(key, listeners[key][j])

C14_Witness ==
    /\ lastOp.op = "addAlarm"
    /\ Handle("alarms", "c1") \in handles
    /\ ~Live("alarms", "c1")
    /\ Len(invoked) = 2
    /\ invoked[1].key = "alarms"
    /\ invoked[2].key = "alarms"

(***************************************************************************)
(* SpecSession: the socket session from start-up, with its connection      *)
(* events, the snapshot request and the pushes of sensors and readings.    *)
(***************************************************************************)
SessionEvents ==
    {SensorEvent(id, "nested", Num(50), Num(now)) : id \in {"S1", "S10"}}

NextSession ==
    \/ AlarmHistoryLoaded(<<>>)
    \/ Connect
    \/ SocketConnect
    \/ SocketConnectError
    \/ SocketDisconnect
    \/ \E list \in SnapshotLists : SensorsLoaded(list)
    \/ SnapshotFailed
    \/ \E sensorData \in ConnectedSensors : SensorConnected(sensorData)
    \/ \E data \in SessionEvents : SensorUpdate(data)

SpecSession == Init /\ [][NextSession]_vars

HasData(sensor) == sensor.lastUpdate.set

\* C15: a snapshot installed after pushes that arrived while it was in flight
\* leaves every pushed sensor with the lastValue, lastUpdate, status and
\* readings the pushes gave it.
C15_SnapshotKeepsPushes ==
    lastOp.op = "setSensors" =>
        \A id \in DOMAIN lastOp.arg.sensorsBefore :
            HasData(lastOp.arg.sensorsBefore[id]) =>
                /\ id \in DOMAIN state.sensors
                /\ state.sensors[id].lastValue = lastOp.arg.sensorsBefore[id].lastValue
                /\ state.sensors[id].lastUpdate = lastOp.arg.sensorsBefore[id].lastUpdate
                /\ state.sensors[id].status = lastOp.arg.sensorsBefore[id].status
                /\ state.sensors[id].readings = lastOp.arg.sensorsBefore[id].readings

\* C16: once the socket has connected again after a disconnect, the
\* connection status is connected again and a snapshot request has been
\* issued.
C16_ReconnectReacts ==
    (lastOp.op = "socketConnect" /\ nDrops > 0) =>
        /\ state.connectionStatus = "connected"
        /\ snapshotInFlight > 0

\* C17: the stored status of every sensor that has had a reading applied is
\* the status derivation of its lastValue, type and the age of its
\* lastUpdate.
C17_StatusIsDerived ==
    \A id \in DOMAIN state.sensors :
        HasData(state.sensors[id]) =>
            state.sensors[id].status = _calculateSensorStatus(state.sensors[id], now)

ListedIds(list) == {list[i].sensor_id : i \in DOMAIN list}

\* C18: after setSensors(list) the store holds exactly the sensors of the
\* list, each with empty readings, no lastValue, no lastUpdate and the status
\* active, and `sensors` has been notified once with them.
C18_ReplaceInstallsDefaults ==
    lastOp.op = "setSensors" =>
        /\ DOMAIN state.sensors = ListedIds(lastOp.arg.list)
        /\ \A id \in DOMAIN state.sensors :
               /\ state.sensors[id].readings = <<>>
               /\ state.sensors[id].lastValue = Null
               /\ state.sensors[id].lastUpdate = NoDate
               /\ state.sensors[id].status = "active"
        /\ emitted = <<Note("sensors", SensorsData(state.sensors))>>

\* C19: addOrUpdateSensor leaves lastValue, lastUpdate and readings of an
\* existing sensor and every other sensor as they were, changes type,
\* location and status only when the partial carries them, and creates a
\* sensor with the defaults only for an id the store does not hold.
C19_UpsertFrame ==
    lastOp.op = "addOrUpdateSensor" =>
        LET before == lastOp.arg.sensorsBefore
            partial == lastOp.arg.partial
            id == lastOp.arg.sensorId
        IN  IF id = "" THEN state.sensors = before /\ emitted = <<>>
            ELSE /\ DOMAIN state.sensors = DOMAIN before \cup {id}
                 /\ \A other \in DOMAIN before \ {id} : state.sensors[other] = before[other]
                 /\ id \in DOMAIN before =>
                        /\ state.sensors[id].lastValue = before[id].lastValue
                        /\ state.sensors[id].lastUpdate = before[id].lastUpdate
                        /\ state.sensors[id].readings = before[id].readings
                        /\ partial.sensor_type = "" => state.sensors[id].type = before[id].type
                        /\ partial.location = "" => state.sensors[id].location = before[id].location
                        /\ partial.status = "" => state.sensors[id].status = before[id].status
                 /\ id \notin DOMAIN before =>
                        /\ state.sensors[id].lastValue = Null
                        /\ state.sensors[id].lastUpdate = NoDate
                        /\ state.sensors[id].readings = <<>>
                        /\ partial.status = "" => state.sensors[id].status = "active"
                 /\ partial.sensor_type # "" => state.sensors[id].type = partial.sensor_type
                 /\ partial.location # "" => state.sensors[id].location = partial.location
                 /\ partial.status # "" => state.sensors[id].status = partial.status

C19_Witness ==
    /\ lastOp.op = "addOrUpdateSensor"
    /\ lastOp.arg.sensorId \in DOMAIN lastOp.arg.sensorsBefore
    /\ HasData(lastOp.arg.sensorsBefore[lastOp.arg.sensorId])
    /\ state.sensors[lastOp.arg.sensorId] # lastOp.arg.sensorsBefore[lastOp.arg.sensorId]
    /\ state.sensors[lastOp.arg.sensorId].readings # <<>>

Occurrences(seq, x) == Cardinality({i \in DOMAIN seq : seq[i] = x})

\* C20: after setAlarms(list) the collection is a permutation of the list,
\* every alarm's timestamp being at least that of the alarm after it, and
\* `alarms` has been notified with the collection.
C20_ReplaceSortsDescending ==
    lastOp.op = "setAlarms" =>
        /\ Len(state.alarms) = Len(lastOp.arg.given)
        /\ \A a \in Members(lastOp.arg.given) :
               Occurrences(state.alarms, a) = Occurrences(lastOp.arg.given, a)
        /\ \A i \in 1..(Len(state.alarms) - 1) :
               state.alarms[i].timestamp >= state.alarms[i + 1].timestamp
        /\ emitted = <<Note("alarms", AlarmsData(state.alarms))>>

C20_Witness ==
    /\ lastOp.op = "setAlarms"
    /\ Len(state.alarms) = 4
    /\ state.alarms # lastOp.arg.given
    /\ state.alarms[3].timestamp = state.alarms[4].timestamp

(***************************************************************************)
(* The notifications of addAlarm.                                          *)
(***************************************************************************)
\* C21: an addAlarm call emits exactly two notifications: `newAlarm` with
\* the added alarm, then `alarms` with the collection as it is after the
\* alarm was prepended and the collection cut to 1000.
C21_AddAlarmNotifies ==
    lastOp.op = "addAlarm" =>
        LET added == arrivals[Len(arrivals)]
        IN  /\ emitted = <<Note("newAlarm", AlarmData(added)),
                           Note("alarms", AlarmsData(state.alarms))>>
            /\ state.alarms[1] = added
            /\ Len(state.alarms) <= AlarmsCap

C21_Witness ==
    /\ lastOp.op = "addAlarm"
    /\ Len(arrivals) > AlarmsCap
    /\ Len(emitted) = 2
    /\ Len(emitted[2].data.alarms) = AlarmsCap

(***************************************************************************)
(* The two shapes of a sensor_update event.                                *)
(***************************************************************************)
\* C22: after a sensor_update event of a known sensor that carries a number
\* v, zero included, in data.value or in a bare value field, the sensor's
\* lastValue is v and v is the latest entry of its readings.
C22_ShapeNormalized ==
    (lastOp.op = "updateSensorData" /\ lastOp.arg.known /\ IsFiniteNum(lastOp.arg.carried)) =>
        LET sensor == state.sensors[lastOp.arg.sensorId]
        IN  /\ sensor.lastValue = lastOp.arg.carried
            /\ sensor.readings # <<>>
            /\ sensor.readings[Len(sensor.readings)].value = lastOp.arg.carried

(***************************************************************************)
(* The two shapes of an alarm_update event.                                *)
(***************************************************************************)
\* C23: after an alarm_update event in either shape the first entry of the
\* alarm collection is a defined alarm with the event's level, sensor id and
\* timestamp, and no entry of the collection is undefined.
C23_AlarmEntriesDefined ==
    /\ \A i \in DOMAIN state.alarms : state.alarms[i].defined
    /\ lastOp.op = "addAlarm" =>
           /\ state.alarms[1].level = lastOp.arg.alarm.level
           /\ state.alarms[1].sensor_id = lastOp.arg.alarm.sensor_id
           /\ state.alarms[1].timestamp = lastOp.arg.alarm.timestamp

(***************************************************************************)
(* SpecRequests: the three pull requests (alarm history, sensor snapshot,  *)
(* statistics), each answered or rejected, among pushed events.            *)
(***************************************************************************)
RequestAlarmLists ==
    {<<>>,
     <<Alarm(1, "S1", "warning", StartTime - 20), Alarm(2, "S1", "critical", StartTime - 10)>>}

NextRequests ==
    \/ \E alarmList \in RequestAlarmLists : AlarmHistoryLoaded(alarmList)
    \/ AlarmHistoryFailed
    \/ Connect
    \/ SocketConnect
    \/ SocketConnectError
    \/ SocketDisconnect
    \/ \E list \in SnapshotLists : SensorsLoaded(list)
    \/ SnapshotFailed
    \/ \E stats \in StatsValues : StatsLoaded(stats)
    \/ StatsFailed
    \/ \E sensorData \in ConnectedSensors : SensorConnected(sensorData)
    \/ \E data \in SessionEvents : SensorUpdate(data)
    \/ \E data \in AlarmEvents : AlarmUpdate(data)

SpecRequests == Init /\ [][NextRequests]_vars

FailureOps == {"alarmHistoryFailed", "snapshotFailed", "statsFailed"}

\* C24: a step in which a pull request is rejected leaves the store's
\* sensors, alarms and statistics as they were and emits no notification.
C24_FailureLeavesState ==
    [][lastOp'.op \in FailureOps => (state' = state /\ emitted' = <<>>)]_vars

C24_Witness ==
    /\ lastOp.op \in {"snapshotFailed", "statsFailed"}
    /\ state.sensors # EmptyMap
    /\ state.alarms # <<>>
    /\ emitted = <<>>

(***************************************************************************)
(* SpecAcknowledge: the alarm collection with the acknowledge requests of  *)
(* the API, each answered or rejected, and the store's own                 *)
(* acknowledgeAlarm.                                                       *)
(***************************************************************************)
NextAcknowledge ==
    \/ \E alarmList \in RequestAlarmLists : AlarmHistoryLoaded(alarmList)
    \/ Connect
    \/ SocketConnect
    \/ \E data \in AlarmEvents : AlarmUpdate(data)
    \/ \E alarmId \in AlarmIds : AcknowledgeRequested(alarmId)
    \/ \E alarmId \in AlarmIds : AcknowledgeSucceeded(alarmId)
    \/ \E alarmId \in AlarmIds : AcknowledgeRejected(alarmId)
    \/ \E alarmId \in AlarmIds : AcknowledgeAlarm(alarmId)

SpecAcknowledge == Init /\ [][NextAcknowledge]_vars

\* C25: when an acknowledge request has succeeded, the alarm of that id in
\* the collection is acknowledged; when it was rejected, the collection is
\* as it was before.
C25_AcknowledgeRoundTrip ==
    /\ lastOp.op = "acknowledgeSucceeded" =>
           \A i \in DOMAIN state.alarms :
               (state.alarms[i].defined /\ state.alarms[i].id = lastOp.arg.alarmId) =>
                   state.alarms[i].acknowledged
    /\ lastOp.op = "acknowledgeRejected" => state.alarms = lastOp.arg.before

(***************************************************************************)
(* The connection status.                                                  *)
(***************************************************************************)
ConnectionStatuses == {"disconnected", "connecting", "connected", "error"}
TransportOps == {"connect", "socketConnect", "socketConnectError", "socketDisconnect"}

\* C26: the connection status is always one of disconnected, connecting,
\* connected and error, it is disconnected at the start, and a step changes
\* it only if the step is the connect request or the reaction to the
\* socket's connect, connect_error or disconnect event.
C26_StatusFromTransportOnly ==
    /\ state.connectionStatus = "disconnected"
    /\ [](state.connectionStatus \in ConnectionStatuses)
    /\ [][state'.connectionStatus # state.connectionStatus => lastOp'.op \in TransportOps]_vars

C26_Witness ==
    /\ lastOp.op \in {"addAlarm", "updateSensorData", "setSensors", "updateSystemStats"}
    /\ nDrops > 0
    /\ state.connectionStatus = "disconnected"

(***************************************************************************)
(* Readings that arrive out of order.                                      *)
(***************************************************************************)
\* C27: after a reading (v, t) is applied to a known sensor, lastValue is
\* the sanitized v and lastUpdate is the date of t, also when t is older
\* than the lastUpdate the sensor had.
C27_LatestArrivalWins ==
    ReadingApplied =>
        LET sensor == state.sensors[lastOp.arg.sensorId]
        IN  /\ sensor.lastValue = sanitize(lastOp.arg.value)
            /\ sensor.lastUpdate.set
            /\ getTime(sensor.lastUpdate) = lastOp.arg.timestamp

C27_Witness ==
    /\ ReadingApplied
    /\ LET applied == accepted[lastOp.arg.sensorId]
           n == Len(applied)
       IN  /\ n >= 2
           /\ applied[n].timestamp = lastOp.arg.timestamp
           /\ applied[n].timestamp.n < applied[n - 1].timestamp.n
           /\ state.sensors[lastOp.arg.sensorId].lastUpdate.ms = applied[n].timestamp.n
           /\ state.sensors[lastOp.arg.sensorId].lastValue = applied[n].value
           /\ applied[n].value # applied[n - 1].value

(***************************************************************************)
(* SpecHistory: the alarm collection when the history the backend answers  *)
(* with is long, followed by pushed alarms and acknowledgements.           *)
(***************************************************************************)
History(n) == [i \in 1..n |-> Alarm(i, "S1", "warning", StartTime - 2000 + i)]

HistoryLengths == {AlarmsCap - 1, AlarmsCap, AlarmsCap + 1}

HistoryAlarmIds == {1, AlarmsCap + 1}

NextHistory ==
    \/ \E n \in HistoryLengths : AlarmHistoryLoaded(History(n))
    \/ Connect
    \/ SocketConnect
    \/ \E data \in AlarmEvents : AlarmUpdate(data)
    \/ \E alarmId \in HistoryAlarmIds : AcknowledgeAlarm(alarmId)

SpecHistory == Init /\ [][NextHistory]_vars

\* C28: the alarm collection never holds more than 1000 alarms, whatever
\* the sequence of setAlarms, addAlarm and acknowledgeAlarm calls.
C28_AlarmsCapped == Len(state.alarms) <= AlarmsCap

(***************************************************************************)
(* Staleness in the status derivation.                                     *)
(***************************************************************************)
Derived == lastOp.op = "_calculateSensorStatus"
ProbeAge == probe.at - probe.lastUpdate.ms

\* C29: the derivation returns offline whenever lastUpdate is absent or
\* older than 300000 ms, whatever the value and the type; at an age of
\* 300000 ms or less it does not: a sensor with a number as its value is
\* then not offline.
C29_StalenessFirst ==
    Derived =>
        /\ ~probe.lastUpdate.set => probeOut = "offline"
        /\ (probe.lastUpdate.valid /\ ProbeAge > StaleAfter) => probeOut = "offline"
        /\ (probe.lastUpdate.valid /\ ProbeAge <= StaleAfter /\ IsFiniteNum(probe.value)) =>
               probeOut # "offline"

C29_Witness ==
    /\ Derived
    /\ probe.lastUpdate.valid
    /\ ProbeAge = StaleAfter
    /\ probe.value = Num(81)
    /\ probe.type = "humidity"
    /\ probeOut = "critical"

\* A last value that is absent or is not a number.
NonNumeric(v) ==
    \/ IsNullish(v)
    \/ v = NaN
    \/ v.t = "string" /\ parseFloat(v.s) = NaN
    \/ v.t \notin {"number", "string"}

\* C30: for a sensor whose lastUpdate is fresh and whose lastValue is absent
\* or not a number, the derivation returns offline.
C30_NoValueIsOffline ==
    (Derived /\ probe.lastUpdate.valid /\ ProbeAge <= StaleAfter /\ NonNumeric(probe.value)) =>
        probeOut = "offline"

(***************************************************************************)
(* The threshold table.                                                    *)
(***************************************************************************)
\* The class the table gives a number n of a sensor type.
TableClass(type, n) ==
    CASE type = "humidity" ->
             IF (0 <= n /\ n <= 20) \/ (80 <= n /\ n <= 100) THEN "critical"
             ELSE IF (20 < n /\ n <= 30) \/ (70 <= n /\ n < 80) THEN "warning"
             ELSE "normal"
      [] type = "vibration" ->
             IF n >= 50 THEN "critical" ELSE IF 20 <= n /\ n < 50 THEN "warning" ELSE "normal"
      [] type = "stress" ->
             IF n >= 80 THEN "critical" ELSE IF 60 <= n /\ n < 80 THEN "warning" ELSE "normal"
      [] OTHER -> "normal"

\* ... and an infinite value: above every bound, or below every bound.
TableClassInfinite(type, v) ==
    IF v = PosInfinity /\ type \in {"vibration", "stress"} THEN "critical" ELSE "normal"

\* C31: for every sensor type and every number, getSensorStatus is the
\* class of the threshold table: humidity critical in [0,20] and [80,100],
\* warning in (20,30] and [70,80); vibration critical from 50, warning in
\* [20,50); stress critical from 80, warning in [60,80); normal outside
\* these ranges and for a type the table does not list.
C31_ThresholdTable ==
    lastOp.op = "getSensorStatus" =>
        /\ IsFiniteNum(probe.value) => probeOut = TableClass(probe.type, probe.value.n)
        /\ probe.value \in {PosInfinity, NegInfinity} =>
               probeOut = TableClassInfinite(probe.type, probe.value)

C31_Witness ==
    /\ lastOp.op = "getSensorStatus"
    /\ probe.type = "humidity"
    /\ probe.value = Num(20)
    /\ probeOut = "critical"

(***************************************************************************)
(* The alarm timeline.                                                     *)
(***************************************************************************)
AlarmsNotified == \E i \in DOMAIN emitted : emitted[i].key = "alarms"

\* C37: after every `alarms` notification, the one of the initial history
\* load included, the timeline has a bucket for each calendar day of the
\* collection and no other, and the bucket's count of critical and of
\* warning alarms is the number of such alarms of that day in the collection.
C37_TimelineRebuilt ==
    AlarmsNotified =>
        /\ DOMAIN timeline.buckets = {DayOf(state.alarms[i].timestamp) : i \in DOMAIN state.alarms}
        /\ \A day \in DOMAIN timeline.buckets :
               /\ timeline.buckets[day].critical =
                      Cardinality({i \in DOMAIN state.alarms :
                                      /\ DayOf(state.alarms[i].timestamp) = day
                                      /\ state.alarms[i].level = "critical"})
               /\ timeline.buckets[day].warning =
                      Cardinality({i \in DOMAIN state.alarms :
                                      /\ DayOf(state.alarms[i].timestamp) = day
                                      /\ state.alarms[i].level = "warning"})


(***************************************************************************)
(* The history view: the user changes the selection, each change starting  *)
(* a reload of the charts, while history answers and push events arrive.   *)
(***************************************************************************)
\* What a reload step leaves alone.
ReloadFrame ==
    /\ emitted' = <<>>
    /\ invoked' = <<>>
    /\ UNCHANGED <<state, now, transportVars, alarmFetch, snapshotInFlight, statsInFlight,
                   ackInFlight, timeline, ghostVars, countVars, probeVars, launch, listeners, liveSince,
                   handles, nSubs>>

\* A call of _loadHistoricalData under the selection sel; a call that ends
\* without an await goes through _updateChartVisibility at once.
StartReload(sel, name) ==
    LET res == _loadHistoricalData(charts, sel, state.sensors)
    IN  /\ Len(reloads) < MaxReloads
        /\ charts' = res.charts
        /\ reloads' = Append(reloads, res.reload)
        /\ selection' = IF reloadDone(res.reload) THEN _loadDevices(sel, state.sensors) ELSE sel
        /\ lastOp' = Op(name, [NoArg EXCEPT !.reload = Len(reloads) + 1,
                                            !.installed = res.installed])
        /\ ReloadFrame

\* 'change' of sensorTypeSelect: _updateChartVisibility, then the reload.
SelectType(type) ==
    /\ type # selection.type
    /\ StartReload(_loadDevices([selection EXCEPT !.type = type], state.sensors), "selectType")

\* 'change' of dateRangeSelect
SelectRange(range) ==
    /\ range # selection.range
    /\ StartReload([selection EXCEPT !.range = range], "selectRange")

\* 'change' of deviceSelect: the options are the sensors of the selected type.
SelectDevices(devices) ==
    /\ devices # selection.devices
    /\ devices \subseteq {id \in DOMAIN state.sensors :
                              selection.type = "" \/ state.sensors[id].type = selection.type}
    /\ StartReload([selection EXCEPT !.devices = devices], "selectDevices")

\* The fetch awaited by reload k is answered, or fails.
FetchSettled(k, data, failed, name) ==
    LET res == historyAnswered(charts, reloads[k], data, failed)
    IN  /\ charts' = res.charts
        /\ reloads' = [reloads EXCEPT ![k] = res.reload]
        /\ selection' = IF reloadDone(res.reload) THEN _loadDevices(selection, state.sensors)
                         ELSE selection
        /\ lastOp' = Op(name, [NoArg EXCEPT !.reload = k, !.installed = res.installed])
        /\ ReloadFrame

\* The lengths of the answers: api.getSensorData(id, limit) answers at most
\* limit points; full answers are taken for the day range.
AnswerLengths(limit) == IF limit = 288 THEN {0, limit} ELSE {0, 2}

HistoryAnswered(k) ==
    /\ k \in DOMAIN reloads
    /\ reloads[k].pending # <<>>
    /\ \E n \in AnswerLengths(_getLimitForDateRange(reloads[k].range)) :
           FetchSettled(k, HistoryData(n, StartTime - 1000), FALSE, "historyAnswered")

HistoryFailed(k) ==
    /\ k \in DOMAIN reloads
    /\ reloads[k].pending # <<>>
    /\ FetchSettled(k, <<>>, TRUE, "historyFailed")

\* The navigation shows a view.
Views == {"dashboard", "sensor-history"}
ShowView(view) ==
    /\ view # selection.view
    /\ selection' = [selection EXCEPT !.view = view]
    /\ lastOp' = Op("showView", NoArg)
    /\ emitted' = <<>>
    /\ invoked' = <<>>
    /\ UNCHANGED <<state, now, transportVars, requestVars, charts, timeline, ghostVars, countVars,
                   probeVars, launch, listeners, liveSince, handles, nSubs>>

(***************************************************************************)
(* SpecCharts: the history view once the sensors are listed.  Two humidity *)
(* sensors are listed, one id a prefix of the other; push events carry a   *)
(* current reading, or one older than all history.                         *)
(***************************************************************************)
ChartSnapshot ==
    <<Descriptor("S1", "humidity", "A", "online"), Descriptor("S10", "humidity", "B", "online")>>

ChartLoaded ==
    setSensors(setConnectionStatus(setAlarms(NewStore, <<>>).state, "connected").state,
               ChartSnapshot)

InitCharts ==
    /\ state = ChartLoaded.state
    /\ emitted = ChartLoaded.notes
    /\ now = StartTime
    /\ socket = "open"
    /\ onceConnect = FALSE
    /\ onceError = TRUE
    /\ handlersSet = TRUE
    /\ alarmFetch = "done"
    /\ snapshotInFlight = 0
    /\ statsInFlight = 1
    /\ ackInFlight = {}
    /\ reloads = <<>>
    /\ timeline = _initializeTimelineChart(NoTimeline)
    /\ charts = [type \in ChartTypes |-> <<>>]
    /\ selection = [type |-> "", devices |-> {}, range |-> "week", view |-> "dashboard"]
    /\ lastOp = Op("setSensors", [NoArg EXCEPT !.list = ChartSnapshot])
    /\ accepted = [id \in DOMAIN ChartLoaded.state.sensors |-> <<>>]
    /\ arrivals = <<>>
    /\ chartedAt = EmptyMap
    /\ nEvents = 0
    /\ nClock = 0
    /\ nDrops = 0
    /\ probe = NoProbe
    /\ probeOut = ""
    /\ launch = NotLaunched
    /\ NoSubscribers

\* A reading of now, and one 500 s old, older than all history.
ChartEvents ==
    {SensorEvent("S1", "nested", Num(50), Num(now)),
     SensorEvent("S1", "nested", Num(50), Num(now - 500000))}
SelectableTypes == {"vibration"}
SelectableRanges == {"day"}
SelectableDevices == {{"S10"}}

NextCharts ==
    \/ \E data \in ChartEvents : SensorUpdate(data)
    \/ \E type \in SelectableTypes : SelectType(type)
    \/ \E range \in SelectableRanges : SelectRange(range)
    \/ \E devices \in SelectableDevices : SelectDevices(devices)
    \/ \E k \in 1..MaxReloads : HistoryAnswered(k)
    \/ \E k \in 1..MaxReloads : HistoryFailed(k)
    \/ \E view \in Views : ShowView(view)

SpecCharts == InitCharts /\ [][NextCharts]_vars

\* A push event was applied to a chart: the step is a sensor update that
\* changed a dataset.
PushApplied == lastOp'.op = "updateSensorData" /\ charts' # charts

\* The datasets of a chart type that the step changed or created.
ChangedDatasets(type) ==
    {i \in DOMAIN charts'[type] : i \notin DOMAIN charts[type] \/ charts'[type][i] # charts[type][i]}

IsSortedAsc(points) == \A i \in 1..(Len(points) - 1) : points[i].x.ms <= points[i + 1].x.ms

\* A point a push event added carries the value of the event; the points of
\* the history carry another.
IsPushed(point) == point.y = Num(50)

\* C32: after a push event was applied to a dataset of a chart, the dataset
\* is sorted by timestamp, non-decreasing, and holds at most as many points
\* as the cap of the selected date range.
C32_PushKeepsSortedAndCapped ==
    [][PushApplied =>
          \A type \in ChartTypes : \A i \in ChangedDatasets(type) :
              /\ IsSortedAsc(charts'[type][i].data)
              /\ Len(charts'[type][i].data) <= _getLimitForDateRange(selection'.range)]_vars

\* A push event has been applied to a dataset that holds as many points as
\* the cap, and its point is in the dataset.
C32_Witness ==
    /\ lastOp.op = "updateSensorData"
    /\ \E i \in DOMAIN charts["humidity"] :
           /\ Len(charts["humidity"][i].data) = _getLimitForDateRange(selection.range)
           /\ \E j \in DOMAIN charts["humidity"][i].data : IsPushed(charts["humidity"][i].data[j])

\* The point a sensor update hands to the feeder: the sensor's lastUpdate
\* and lastValue after the store operation.
PushedPoint ==
    [x |-> state'.sensors[lastOp'.arg.sensorId].lastUpdate,
     y |-> state'.sensors[lastOp'.arg.sensorId].lastValue]

\* C33: a push event applied to a dataset that holds as many points as the
\* cap leaves the dataset with the cap-many points of highest timestamp
\* among its previous points and the new one, as appending, sorting and
\* truncating would; also when the new point is older than all of them.
C33_KeepsNewestPoints ==
    [][PushApplied =>
          \A type \in ChartTypes : \A i \in ChangedDatasets(type) \cap DOMAIN charts[type] :
              Len(charts[type][i].data) = _getLimitForDateRange(selection.range)
              => charts'[type][i].data =
                     sliceLast(SortAsc(Append(charts[type][i].data, PushedPoint)),
                               _getLimitForDateRange(selection.range))]_vars

\* The selection excludes the sensor of the push event by its type or by
\* the device selection.
ExcludedByFilter(sensorId) ==
    \/ selection.type # "" /\ state.sensors[sensorId].type # selection.type
    \/ selection.devices # {} /\ sensorId \notin selection.devices

\* The history view is not the view shown.
ViewInactive == selection.view # "sensor-history"

\* C34: a push event whose sensor the selection excludes (by the selected
\* type, by the device selection, or because the history view is not
\* active) changes no chart dataset.
C34_ExcludedEventChangesNothing ==
    [][(/\ lastOp'.op = "updateSensorData"
        /\ lastOp'.arg.sensorId \in DOMAIN state.sensors
        /\ ExcludedByFilter(lastOp'.arg.sensorId) \/ ViewInactive)
       => charts' = charts]_vars

\* C35: the datasets of a chart are keyed by sensor id: a push event applied
\* to a chart changes or creates the dataset of its own sensor id only, and
\* no chart holds two datasets of one id; also with the ids S1 and S10, one
\* a prefix of the other.
C35_DatasetsKeyedById ==
    [][/\ PushApplied =>
              \A type \in ChartTypes : \A i \in ChangedDatasets(type) :
                  charts'[type][i].sid = lastOp'.arg.sensorId
       /\ \A type \in ChartTypes : \A i, j \in DOMAIN charts'[type] :
              i # j => charts'[type][i].sid # charts'[type][j].sid]_vars

\* C36: a reload discards the datasets of each chart it updates and fills
\* the chart from the history answers only: when a reload has assigned the
\* datasets of a chart, each dataset of the chart is that of a sensor the
\* reload loaded, holds history points only, and at most as many as the
\* limit of the range the reload asked with (day 288, week 2016, month 8640,
\* custom 10000).
C36_ReloadReplacesDatasets ==
    /\ _getLimitForDateRange("day") = 288
    /\ _getLimitForDateRange("week") = 2016
    /\ _getLimitForDateRange("month") = 8640
    /\ _getLimitForDateRange("custom") = 10000
    /\ \A type \in lastOp.arg.installed : \A i \in DOMAIN charts[type] :
           LET dataset == charts[type][i]
               r == reloads[lastOp.arg.reload]
           IN  /\ Len(dataset.data) <= _getLimitForDateRange(r.range)
               /\ \A j \in DOMAIN dataset.data : ~IsPushed(dataset.data[j])
               /\ \E k \in DOMAIN r.devices :
                      r.devices[k].id = dataset.sid /\ r.devices[k].type = type
               /\ \A j \in DOMAIN charts[type] : j # i => charts[type][j].sid # dataset.sid

\* A reload has assigned the datasets of the humidity chart, one of them
\* with as many points as the limit, after a push event had put a point
\* into the chart.
C36_Witness ==
    /\ lastOp.op = "historyAnswered"
    /\ "humidity" \in lastOp.arg.installed
    /\ "S1" \in DOMAIN chartedAt
    /\ \E i \in DOMAIN charts["humidity"] :
           Len(charts["humidity"][i].data) = _getLimitForDateRange(reloads[lastOp.arg.reload].range)

AllFetchesCompleted == \A k \in DOMAIN reloads : reloadDone(reloads[k])

\* C38: when reloads have overlapped and all their fetches have completed,
\* every chart the latest reload updates shows the datasets of the selection
\* that reload was requested with: with no push event received, each of its
\* datasets is that of a sensor the latest reload loaded.
C38_LatestSelectionShown ==
    (nEvents = 0 /\ Len(reloads) > 1 /\ AllFetchesCompleted)
    => LET latest == reloads[Len(reloads)]
       IN  \A t \in DOMAIN latest.types : \A i \in DOMAIN charts[latest.types[t]] :
               \E k \in DOMAIN latest.devices :
                   latest.devices[k].id = charts[latest.types[t]][i].sid

\* The chart of a type holds a point that a push event added.
HoldsPushedPoint(ch, type) ==
    \E i \in DOMAIN ch[type] : \E j \in DOMAIN ch[type][i].data : IsPushed(ch[type][i].data[j])

\* C39: a point that a push event appended to a chart while a reload of the
\* chart was in flight is in the chart after the reload completes.  Stated
\* for the push that comes right before the answer with which the reload
\* assigns the chart: the reload was in flight when the point was appended.
C39_PushSurvivesReload ==
    [][(/\ lastOp.op = "updateSensorData"
        /\ lastOp.arg.plotted
        /\ lastOp'.op \in {"historyAnswered", "historyFailed"}
        /\ state.sensors[lastOp.arg.sensorId].type \in lastOp'.arg.installed)
       => HoldsPushedPoint(charts', state.sensors[lastOp.arg.sensorId].type)]_vars

(***************************************************************************)
(* SpecLaunch: the start-up of the Electron main process, in development   *)
(* mode or not, on macOS or not.                                           *)
(***************************************************************************)
LaunchFrame ==
    UNCHANGED <<storeVars, now, transportVars, requestVars, viewVars, lastOp, ghostVars, countVars,
                probeVars, busVars>>

Platforms == {"darwin", "linux"}

InitLaunch ==
    /\ state = NewStore
    /\ emitted = <<>>
    /\ now = StartTime
    /\ socket = "none"
    /\ onceConnect = FALSE
    /\ onceError = FALSE
    /\ handlersSet = FALSE
    /\ alarmFetch = "pending"
    /\ snapshotInFlight = 0
    /\ statsInFlight = 0
    /\ ackInFlight = {}
    /\ reloads = <<>>
    /\ timeline = NoTimeline
    /\ charts = [type \in ChartTypes |-> <<>>]
    /\ selection = [type |-> "", devices |-> {}, range |-> "week", view |-> "dashboard"]
    /\ lastOp = Op("init", NoArg)
    /\ accepted = EmptyMap
    /\ arrivals = <<>>
    /\ chartedAt = EmptyMap
    /\ nEvents = 0
    /\ nClock = 0
    /\ nDrops = 0
    /\ probe = NoProbe
    /\ probeOut = ""
    /\ NoSubscribers
    /\ \E dev \in BOOLEAN, platform \in Platforms :
           launch = [NotLaunched EXCEPT !.isDev = dev, !.platform = platform]

\* app.whenReady(): createLoadingWindow, then await startBackend().
WhenReady ==
    /\ launch.phase = "launching"
    /\ launch' = [launch EXCEPT !.phase = "startingBackend"]
    /\ LaunchFrame

\* startBackend resolved (at once in development mode, else two seconds
\* after the spawn): waitForBackend starts its first attempt.
BackendStarted ==
    /\ launch.phase = "startingBackend"
    /\ launch' = [launch EXCEPT !.phase = "checking", !.attempt = 1]
    /\ LaunchFrame

\* startBackend rejected (no backend path, or the spawn failed): the catch.
BackendRejected ==
    /\ launch.phase = "startingBackend"
    /\ ~launch.isDev
    /\ launch' = [scheduleQuit(launch) EXCEPT !.rejected = TRUE]
    /\ LaunchFrame

\* checkBackendHealth resolved: true for a response with status 200, false
\* for another status, an error or the 2 s timeout.
HealthChecked(isHealthy) ==
    /\ launch.phase = "checking"
    /\ launch' = healthChecked(launch, isHealthy)
    /\ LaunchFrame

\* The one-second timer between two attempts.
RetryTimer ==
    /\ launch.phase = "waiting"
    /\ launch' = retry(launch)
    /\ LaunchFrame

\* The three-second timer of a failed start: app.quit().
QuitTimer ==
    /\ launch.phase = "quitTimer"
    /\ launch' = [launch EXCEPT !.phase = "quit"]
    /\ LaunchFrame

\* The main window is closed: 'closed', then 'window-all-closed', which
\* quits except on macOS.
WindowClosed ==
    /\ launch.phase = "running"
    /\ launch.window
    /\ launch' = [launch EXCEPT !.window = FALSE,
                                !.phase = IF launch.platform # "darwin" THEN "quit" ELSE @]
    /\ LaunchFrame

\* 'activate', listened to once the start-up handler has reached its end.
Activate ==
    /\ launch.phase = "running"
    /\ launch.activateSet
    /\ launch' = IF ~launch.window /\ launch.created < MaxWindows THEN createWindow(launch)
                  ELSE launch
    /\ launch' # launch
    /\ LaunchFrame

NextLaunch ==
    \/ WhenReady
    \/ BackendStarted
    \/ BackendRejected
    \/ \E isHealthy \in BOOLEAN : HealthChecked(isHealthy)
    \/ RetryTimer
    \/ QuitTimer
    \/ WindowClosed
    \/ Activate

\* The promises and timers of the start-up settle: a step that is possible
\* is taken.
SpecLaunch == InitLaunch /\ [][NextLaunch]_vars /\ WF_vars(NextLaunch)

StartFailed == launch.backendReady = "false" \/ launch.rejected

\* C40: the main window is created only after a health check has returned
\* HTTP 200; waitForBackend makes at most maxAttempts = 30 checks and then
\* has returned, true at the first healthy check and false when none of the
\* 30 was healthy; and when it returned false or startBackend rejected, no
\* main window is created and the application quits.
C40_WindowOnlyWhenHealthy ==
    /\ [](/\ launch.created > 0 => launch.healthy
          /\ launch.checks <= maxAttempts /\ maxAttempts = 30
          /\ launch.backendReady = "true" <=> launch.healthy
          /\ launch.backendReady = "false" => launch.checks = maxAttempts
          /\ StartFailed => launch.created = 0 /\ launch.phase \in {"quitTimer", "quit"})
    /\ (launch.phase = "checking" ~> launch.backendReady # "pending")
    /\ (StartFailed ~> launch.phase = "quit")

\* waitForBackend has returned false after 30 checks and the application
\* has quit.
C40_Witness ==
    /\ launch.backendReady = "false"
    /\ launch.checks = maxAttempts
    /\ launch.phase = "quit"
====
